---- MODULE Spec2Model ----
(***************************************************************************)
(* ObsidianStack: the agent shipper (bounded channel, reconnect loop),     *)
(* the server WebSocket hub (registry, broadcast, shutdown) and the alert  *)
(* engine (cooldown, firing/resolved transitions).                         *)
(***************************************************************************)
EXTENDS Integers, Sequences, FiniteSets, TLC

\* ------------------------------------------------------------------ bounds
MaxCap == 2            \* largest buffer capacity (cfg.BufferSize) explored
MaxShip == 4           \* number of Ship calls explored
NumProducers == 2      \* goroutines calling Ship
NumClients == 2        \* WebSocket connections explored
NumEvaluators == 2     \* concurrent Evaluate calls (gRPC handlers)
MaxEvals == 3          \* Evaluate calls explored
MaxTime == 4           \* minutes of wall clock explored
NumHandlers == 2       \* concurrent SendSnapshot handlers
MaxRpc == 2            \* SendSnapshot calls explored
MaxStoreTime == 2      \* minutes of the store's clock explored
MaxProcess == 3        \* Process calls explored
MaxCompTime == 2       \* half-minutes of the scrape clock explored
MaxHubVer == 1         \* changes of the store content seen by the hub

\* --------------------------------------------------------------- constants
backoffInitial == 1    \* seconds
backoffMax == 60       \* seconds
backoffMultiplier == 2

sendBufSize == 16      \* per-client outbox depth
defaultCooldown == 15  \* minutes
recentWindowHours == 1
uptimeWindow == 20
maxHistoryLen == 200

None == 0              \* "no snapshot" (nil); snapshot ids are 1..MaxShip

VARIABLES
    \* ---- shipper
    cap,        \* cap(s.buf)
    buf,        \* s.buf, a FIFO channel: head is the next value received
    ppc,        \* position of each Ship call
    nCalls,     \* Ship calls started
    nEnq,       \* snapshots put into s.buf by Ship; the n-th has id n
    rpc,        \* position of Run / drain
    inflight,   \* snap received by drain and being sent
    connOpen,   \* conn is dialled and not closed
    boCurrent,  \* backoff.current
    ctxDone,    \* ctx is cancelled
    lastRes,    \* snapshot and result of the latest SendSnapshot call
    delivered,  \* snapshots the server accepted, in order of arrival
    \* ---- WebSocket hub
    hclients,   \* h.clients, the registry
    chst,       \* state of each c.send: "none" (client not created), "open", "closed"
    outbox,     \* messages buffered in each c.send
    closes,     \* close(c.send) calls made for each client
    hs,         \* position of each ServeHTTP call
    wpc,        \* position of each writePump
    hpc,        \* position of Hub.Run
    targets,    \* clients the running broadcast has not visited yet
    hctxDone,   \* the hub's ctx is cancelled
    hver,       \* version of the store content api.BuildSnapshot reads
    bdata,      \* data of the broadcast in progress
    \* ---- alert engine
    now,        \* time.Now(), in minutes
    active,     \* e.active: key -> firing alert, NoAlert when the key is absent
    lastFire,   \* e.lastFire: key -> time of the last fire, ZeroTime when absent
    history,    \* e.history
    dispatched, \* alert copies handed to `go e.deliver`, in order of dispatch
    epc,        \* position of each Evaluate call
    esnap,      \* snap of each Evaluate call
    enow,       \* now of each Evaluate call
    eidx,       \* index in e.rules of the rule each Evaluate call is at
    nEvals,     \* Evaluate calls started
    posting,    \* deliver tasks whose POST is not answered: index in dispatched, starter
    activeOut,  \* what the latest Active call returned
    \* ---- one evalCondition call
    condIn,     \* cond, as the pieces of the string: words and " " runs
    condSnap,   \* snap
    condOut,    \* the returned (fires, value)
    condPc,     \* "call" before the return, "done" after it
    \* ---- snapshot store and receiver
    stNow,      \* s.now(), in minutes
    stData,     \* s.data: id -> Entry, NoEntry when the id is absent
    stStopped,  \* Store.Run has returned
    stObs,      \* what the latest Get, List or Count call returned
    lastApplied,\* per id, the snapshot and time of the Put that ran last
    rcvPc,      \* position of each SendSnapshot handler
    rcvSnap,    \* snap of each SendSnapshot handler
    rcvResp,    \* what each handler returned last
    nRpc,       \* SendSnapshot calls started; the n-th snapshot is version n
    nAccepted,  \* SendSnapshot calls that returned Ok
    \* ---- compute engine (agent)
    cstates,    \* e.states: source id -> sourceState
    cout,       \* what the latest Process call returned
    cin,        \* res and now of the latest Process call
    clastOk,    \* per source, res and now of the latest successful scrape processed
    nProcess,   \* Process calls made
    \* ---- gRPC auth interceptor
    authMode,   \* cfg.Server.Auth.Mode
    authKey,    \* cfg.Server.Auth.Key()
    authReq,    \* per handler, the latest request that reached the interceptor
    \* ---- backoff
    boWait,     \* what the latest backoff.next returned, in milliseconds
    \* ---- score calculator
    scoreIn,    \* the Input of the latest Compute call
    scoreRes,   \* the Output it returned
    \* ---- webhook target
    posted,     \* the deliveries whose POST was issued, in the order of the POSTs
    \* ---- the shipper's surroundings
    healed,     \* from now on the server is reachable and accepts every snapshot,
                \* nothing more is enqueued and ctx is not cancelled
    healBuf,    \* the snapshots that were waiting or being sent at that point
    \* ---- Store.Run
    stCtxDone   \* the context given to Store.Run is cancelled

shipVars == <<cap, buf, ppc, nCalls, nEnq, rpc, inflight, connOpen, boCurrent,
              ctxDone, lastRes, delivered>>

hubVars == <<hclients, chst, outbox, closes, hs, wpc, hpc, targets, hctxDone,
             hver, bdata>>

alertVars == <<now, active, lastFire, history, dispatched, epc, esnap, enow, eidx,
               nEvals, posting, activeOut>>

condVars == <<condIn, condSnap, condOut, condPc>>

storeVars == <<stNow, stData, stStopped, stObs, lastApplied, rcvPc, rcvSnap,
               rcvResp, nRpc, nAccepted>>

compVars == <<cstates, cout, cin, clastOk, nProcess>>

authVars == <<authMode, authKey, authReq>>

\* the subsystems beyond shipper, hub and alert engine
boVars == <<boWait>>

scoreVars == <<scoreIn, scoreRes>>

postVars == <<posted>>

envVars == <<healed, healBuf>>

runVars == <<stCtxDone>>

extVars == <<condVars, storeVars, compVars, authVars, boVars, scoreVars, postVars, envVars, runVars>>

coreVars == <<shipVars, hubVars, alertVars>>

vars == <<shipVars, hubVars, alertVars, extVars>>

Clients == 1..NumClients

Producers == 1..NumProducers

Range(s) == {s[i] : i \in DOMAIN s}

Min(a, b) == IF a < b THEN a ELSE b

\* gRPC status codes a send can fail with
ErrCodes == {"InvalidArgument", "Unauthenticated", "PermissionDenied",
             "Unavailable", "DeadlineExceeded", "ResourceExhausted", "Canceled"}

\* outcome of client.SendSnapshot: accepted, answered with Ok=false, or an error
SendResults == {"OK", "NotOk"} \cup ErrCodes

isPermanentErrorNoPermissionDenied(code) ==
    code \in {"InvalidArgument", "Unauthenticated"}

isPermanentError(code) ==
    code \in {"InvalidArgument", "Unauthenticated", "PermissionDenied"}

\* backoff.next: advance current (the returned wait is only a timer length)
boNext(c) == Min(c * backoffMultiplier, backoffMax)

\* a / b rounded toward zero, as Go converts a float64 to an integer
truncDiv(a, b) == IF a >= 0 THEN a \div b ELSE 0 - ((0 - a) \div b)

\* rand.Float64()*2 - 1, in thousandths: from -1 up to, not including, 1
JitterFactors == {0 - 1000, 0 - 750, 0 - 500, 0 - 250, 0, 250, 500, 750, 999}

\* backoff.next line 253-259: the returned wait in milliseconds, for
\* b.current = c seconds and jitter factor r thousandths
backoffWaitHalf(c, r) ==
    LET d == c * 1000 + truncDiv(c * 1000 * r, 2000)
    IN  IF d < 0 THEN 0 ELSE d

backoffWait(c, r) ==
    LET d == c * 1000 + truncDiv(c * 1000 * r, 4000)
    IN  IF d < 0 THEN 0 ELSE d

\* bo.next() is called
BoNext ==
    /\ \E r \in JitterFactors : boWait' = backoffWait(boCurrent, r)
    /\ boCurrent' = boNext(boCurrent)
    /\ UNCHANGED <<cap, buf, ppc, nCalls, nEnq, rpc, inflight, connOpen, ctxDone,
                   lastRes, delivered>>
    /\ UNCHANGED <<hubVars, alertVars, condVars, storeVars, compVars, authVars, scoreVars, postVars, envVars, runVars>>

\* bo.reset() is called
BoReset ==
    /\ boCurrent' = backoffInitial
    /\ UNCHANGED boWait
    /\ UNCHANGED <<cap, buf, ppc, nCalls, nEnq, rpc, inflight, connOpen, ctxDone,
                   lastRes, delivered>>
    /\ UNCHANGED <<hubVars, alertVars, condVars, storeVars, compVars, authVars, scoreVars, postVars, envVars, runVars>>

\* newBackoff; no wait returned yet
BoInit == boWait = 0

BoNextStep == BoNext \/ BoReset

\* ------------------------------------------------------------------ Ship
\* the channel operations of Ship, one per select / send statement
chanTrySend(b, c, v) == IF Len(b) < c THEN Append(b, v) ELSE b

chanTryRecvNewest(b) == IF Len(b) > 0 THEN SubSeq(b, 1, Len(b) - 1) ELSE b

chanTryRecv(b) == IF Len(b) > 0 THEN Tail(b) ELSE b

\* line 58-59: first select; the send case is taken when the buffer has room
ShipTry(p) ==
    /\ ppc[p] = "idle"
    /\ nCalls < MaxShip
    /\ nCalls' = nCalls + 1
    /\ IF Len(buf) < cap
       THEN /\ buf' = chanTrySend(buf, cap, nEnq + 1)
            /\ nEnq' = nEnq + 1
            /\ ppc' = ppc
       ELSE /\ ppc' = [ppc EXCEPT ![p] = "evict"]
            /\ UNCHANGED <<buf, nEnq>>
    /\ UNCHANGED <<cap, rpc, inflight, connOpen, boCurrent, ctxDone, lastRes, delivered>>
    /\ UNCHANGED <<hubVars, alertVars, extVars>>

\* line 62-67: inner select; receive the oldest entry if there is one
ShipEvict(p) ==
    /\ ppc[p] = "evict"
    /\ buf' = chanTryRecv(buf)
    /\ ppc' = [ppc EXCEPT ![p] = "send"]
    /\ UNCHANGED <<cap, nCalls, nEnq, rpc, inflight, connOpen, boCurrent, ctxDone,
                   lastRes, delivered>>
    /\ UNCHANGED <<hubVars, alertVars, extVars>>

\* line 68: s.buf <- snap, a blocking send: enabled only when there is room
ShipSend(p) ==
    /\ ppc[p] = "send"
    /\ Len(buf) < cap
    /\ buf' = Append(buf, nEnq + 1)
    /\ nEnq' = nEnq + 1
    /\ ppc' = [ppc EXCEPT ![p] = "idle"]
    /\ UNCHANGED <<cap, nCalls, rpc, inflight, connOpen, boCurrent, ctxDone,
                   lastRes, delivered>>
    /\ UNCHANGED <<hubVars, alertVars, extVars>>

\* ------------------------------------------------------------------- Run
\* line 79-99: ctx check, dial, then drain or the dial-failure backoff
RunTop ==
    /\ rpc = "top"
    /\ IF ctxDone
       THEN /\ rpc' = "done"
            /\ UNCHANGED <<connOpen, boCurrent>>
       ELSE \E ok \in BOOLEAN :
              IF ok
              THEN /\ connOpen' = TRUE
                   /\ boCurrent' = backoffInitial
                   /\ rpc' = "drain"
              ELSE /\ boCurrent' = boNext(boCurrent)
                   /\ rpc' = "dialwait"
                   /\ UNCHANGED connOpen
    /\ UNCHANGED <<cap, buf, ppc, nCalls, nEnq, inflight, ctxDone, lastRes, delivered>>
    /\ UNCHANGED <<hubVars, alertVars, extVars>>

\* line 90-95 and 113-117: select on ctx.Done() and the backoff timer
RunWait ==
    /\ rpc \in {"dialwait", "lostwait"}
    /\ \/ ctxDone /\ rpc' = "done"
       \/ rpc' = "top"
    /\ UNCHANGED <<cap, buf, ppc, nCalls, nEnq, inflight, connOpen, boCurrent,
                   ctxDone, lastRes, delivered>>
    /\ UNCHANGED <<hubVars, alertVars, extVars>>

\* line 127-131: select on ctx.Done() and a receive from s.buf
DrainSelect ==
    /\ rpc = "drain"
    /\ \/ /\ ctxDone
          /\ rpc' = "closing"
          /\ UNCHANGED <<buf, inflight>>
       \/ /\ Len(buf) > 0
          /\ inflight' = Head(buf)
          /\ buf' = Tail(buf)
          /\ rpc' = "sending"
    /\ UNCHANGED <<cap, ppc, nCalls, nEnq, connOpen, boCurrent, ctxDone, lastRes,
                   delivered>>
    /\ UNCHANGED <<hubVars, alertVars, extVars>>

\* line 142-169: the result of SendSnapshot and what drain does with it
DrainSendResultRequeueAlways ==
    /\ rpc = "sending"
    /\ \E res \in SendResults :
         /\ lastRes' = [id |-> inflight, res |-> res]
         /\ buf' = chanTrySend(buf, cap, inflight)
         /\ IF res \in ErrCodes
            THEN /\ rpc' = IF isPermanentError(res) THEN "drain" ELSE "closing"
                 /\ UNCHANGED delivered
            ELSE /\ delivered' = IF res = "OK" THEN Append(delivered, inflight)
                                               ELSE delivered
                 /\ rpc' = "drain"
    /\ inflight' = None
    /\ UNCHANGED <<cap, ppc, nCalls, nEnq, connOpen, boCurrent, ctxDone>>
    /\ UNCHANGED <<hubVars, alertVars, extVars>>

DrainSendResult ==
    /\ rpc = "sending"
    /\ \E res \in SendResults :
         /\ lastRes' = [id |-> inflight, res |-> res]
         /\ IF res \in ErrCodes
            THEN /\ buf' = chanTrySend(buf, cap, inflight)
                 /\ rpc' = IF isPermanentError(res) THEN "drain" ELSE "closing"
                 /\ UNCHANGED delivered
            ELSE /\ delivered' = IF res = "OK" THEN Append(delivered, inflight)
                                               ELSE delivered
                 /\ rpc' = "drain"
                 /\ UNCHANGED buf
    /\ inflight' = None
    /\ UNCHANGED <<cap, ppc, nCalls, nEnq, connOpen, boCurrent, ctxDone>>
    /\ UNCHANGED <<hubVars, alertVars, extVars>>

\* line 102-112: conn.Close(), ctx check, bo.next()
RunClosing ==
    /\ rpc = "closing"
    /\ connOpen' = FALSE
    /\ IF ctxDone
       THEN rpc' = "done" /\ UNCHANGED boCurrent
       ELSE rpc' = "lostwait" /\ boCurrent' = boNext(boCurrent)
    /\ UNCHANGED <<cap, buf, ppc, nCalls, nEnq, inflight, ctxDone, lastRes, delivered>>
    /\ UNCHANGED <<hubVars, alertVars, extVars>>

\* the caller cancels ctx
Cancel ==
    /\ ~ctxDone
    /\ ctxDone' = TRUE
    /\ UNCHANGED <<cap, buf, ppc, nCalls, nEnq, rpc, inflight, connOpen, boCurrent,
                   lastRes, delivered>>
    /\ UNCHANGED <<hubVars, alertVars, extVars>>

ShipInit ==
    /\ cap \in 1..MaxCap
    /\ buf = <<>>
    /\ ppc = [p \in Producers |-> "idle"]
    /\ nCalls = 0
    /\ nEnq = 0
    /\ rpc = "top"
    /\ inflight = None
    /\ connOpen = FALSE
    /\ boCurrent = backoffInitial
    /\ ctxDone = FALSE
    /\ lastRes = [id |-> None, res |-> "OK"]
    /\ delivered = <<>>

ShipNext ==
    \/ \E p \in Producers : ShipTry(p)
    \/ \E p \in Producers : ShipEvict(p)
    \/ \E p \in Producers : ShipSend(p)
    \/ RunTop
    \/ RunWait
    \/ DrainSelect
    \/ DrainSendResult
    \/ RunClosing
    \/ Cancel

\* the server becomes reachable for good, the producers stop, ctx stays live
Heal ==
    /\ ~healed
    /\ ~ctxDone
    /\ healed' = TRUE
    /\ healBuf' = {buf[k] : k \in DOMAIN buf} \cup (IF inflight = None THEN {} ELSE {inflight})
    /\ UNCHANGED <<shipVars, hubVars, alertVars>>
    /\ UNCHANGED <<condVars, storeVars, compVars, authVars, boVars, scoreVars, postVars, runVars>>

\* Run's steps against a server that is reachable and accepts every snapshot
RunTopHealed == healed /\ RunTop /\ rpc' = "drain"

RunWaitHealed == healed /\ RunWait

DrainSelectHealed == healed /\ DrainSelect

DrainSendHealed == healed /\ DrainSendResult /\ lastRes'.res = "OK"

RunClosingHealed == healed /\ RunClosing

EnvInit == healed = FALSE /\ healBuf = {}

ShipHealNext ==
    \/ ~healed /\ ShipNext
    \/ Heal
    \/ RunTopHealed
    \/ RunWaitHealed
    \/ DrainSelectHealed
    \/ DrainSendHealed
    \/ RunClosingHealed

\* the Run goroutine keeps being scheduled and its timers expire
ShipHealFairness ==
    /\ WF_vars(RunTopHealed)
    /\ WF_vars(RunWaitHealed)
    /\ WF_vars(DrainSelectHealed)
    /\ WF_vars(DrainSendHealed)
    /\ WF_vars(RunClosingHealed)

\* ------------------------------------------------------------------- Hub
\* buildMessage: the envelope {event: "snapshot", data: ...} around what
\* api.BuildSnapshot reads from the store at the time of the call
buildMessage(ver) == [event |-> "snapshot", data |-> ver]

\* unregister: close(c.send) is called only if c is still in the registry
unregisterClosesAlways(cl, c) == TRUE

unregisterCloses(cl, c) == c \in cl

\* Hub.unregister, under h.mu
Unregister(c) ==
    /\ hclients' = hclients \ {c}
    /\ IF unregisterCloses(hclients, c)
       THEN /\ chst' = [chst EXCEPT ![c] = "closed"]
            /\ closes' = [closes EXCEPT ![c] = @ + 1]
       ELSE UNCHANGED <<chst, closes>>

Alive == hpc # "panic"

\* A closed c.send that no writePump will read is unreachable: nothing receives
\* from it and a send to it panics before touching it. Its content is dropped.
Collect(ob, ch, w) ==
    [c \in Clients |-> IF ch[c] = "closed" /\ w[c] # "run" THEN <<>> ELSE ob[c]]

\* ServeHTTP line 92-102: the upgrade, then a new client is registered
Upgrade(c) ==
    /\ Alive
    /\ hs[c] = "new"
    /\ \E ok \in BOOLEAN :
         IF ok
         THEN /\ hs' = [hs EXCEPT ![c] = "registered"]
              /\ chst' = [chst EXCEPT ![c] = "open"]
              /\ hclients' = hclients \cup {c}
         ELSE /\ hs' = [hs EXCEPT ![c] = "rejected"]
              /\ UNCHANGED <<chst, hclients>>
    /\ UNCHANGED <<outbox, closes, wpc, hpc, targets, hctxDone, hver, bdata>>
    /\ UNCHANGED <<shipVars, alertVars, extVars>>

\* ServeHTTP line 107-111: select { case c.send <- data: default: }
initialSendNever(ob, msg) == ob

initialSend(ob, msg) == IF Len(ob) < sendBufSize THEN Append(ob, msg) ELSE ob

\* ServeHTTP line 106-113: the initial non-blocking send, then the pumps start.
\* A send on a closed channel panics: the handler unwinds through its deferred
\* unregister and never starts the pumps.
InitialSend(c) ==
    /\ Alive
    /\ hs[c] = "registered"
    /\ IF chst[c] = "closed"
       THEN /\ hs' = [hs EXCEPT ![c] = "gone"]
            /\ Unregister(c)
            /\ UNCHANGED <<outbox, wpc>>
       ELSE /\ outbox' = [outbox EXCEPT ![c] = initialSend(@, buildMessage(hver))]
            /\ hs' = [hs EXCEPT ![c] = "serving"]
            /\ wpc' = [wpc EXCEPT ![c] = "run"]
            /\ UNCHANGED <<hclients, chst, closes>>
    /\ UNCHANGED <<hpc, targets, hctxDone, hver, bdata>>
    /\ UNCHANGED <<shipVars, alertVars, extVars>>

\* readPump returns (read error, peer close), ServeHTTP's deferred unregister runs
ReaderExit(c) ==
    /\ Alive
    /\ hs[c] = "serving"
    /\ hs' = [hs EXCEPT ![c] = "gone"]
    /\ Unregister(c)
    /\ outbox' = Collect(outbox, chst', wpc)
    /\ UNCHANGED <<wpc, hpc, targets, hctxDone, hver, bdata>>
    /\ UNCHANGED <<shipVars, alertVars, extVars>>

\* writePump line 193-202: receive from c.send; a closed and drained channel
\* ends the writer with a close frame ("bye"), a failed write ends it too
\* ("exit")
WriterRecv(c) ==
    /\ Alive
    /\ wpc[c] = "run"
    /\ IF Len(outbox[c]) > 0
       THEN \E ok \in BOOLEAN :
              /\ wpc' = IF ok THEN wpc ELSE [wpc EXCEPT ![c] = "exit"]
              /\ outbox' = Collect([outbox EXCEPT ![c] = Tail(@)], chst, wpc')
       ELSE /\ chst[c] = "closed"
            /\ wpc' = [wpc EXCEPT ![c] = "bye"]
            /\ UNCHANGED outbox
    /\ UNCHANGED <<hclients, chst, closes, hs, hpc, targets, hctxDone, hver, bdata>>
    /\ UNCHANGED <<shipVars, alertVars, extVars>>

\* writePump line 204-208: a ping write fails and ends the writer
WriterPingFails(c) ==
    /\ Alive
    /\ wpc[c] = "run"
    /\ wpc' = [wpc EXCEPT ![c] = "exit"]
    /\ outbox' = Collect(outbox, chst, wpc')
    /\ UNCHANGED <<hclients, chst, closes, hs, hpc, targets, hctxDone, hver, bdata>>
    /\ UNCHANGED <<shipVars, alertVars, extVars>>

\* Run line 82-83 and broadcast line 142-152: a tick; build the message and
\* copy the client set under the read lock
BroadcastStart ==
    /\ hpc = "idle"
    /\ bdata' = buildMessage(hver)
    /\ targets' = hclients
    /\ hpc' = IF hclients = {} THEN "idle" ELSE "bcast"
    /\ UNCHANGED <<hclients, chst, outbox, closes, hs, wpc, hctxDone, hver>>
    /\ UNCHANGED <<shipVars, alertVars, extVars>>

\* broadcast line 154-161: one iteration of the loop over targets, in the
\* arbitrary order of the map iteration that filled the slice
BroadcastSend ==
    /\ hpc = "bcast"
    /\ \E c \in targets :
         /\ targets' = targets \ {c}
         /\ IF chst[c] = "closed"
            THEN /\ hpc' = "panic"
                 /\ UNCHANGED <<hclients, chst, outbox, closes>>
            ELSE /\ hpc' = IF targets = {c} THEN "idle" ELSE "bcast"
                 /\ IF Len(outbox[c]) < sendBufSize
                    THEN /\ outbox' = [outbox EXCEPT ![c] = Append(@, bdata)]
                         /\ UNCHANGED <<hclients, chst, closes>>
                    ELSE /\ Unregister(c)
                         /\ outbox' = Collect(outbox, chst', wpc)
    /\ UNCHANGED <<hs, wpc, hctxDone, hver, bdata>>
    /\ UNCHANGED <<shipVars, alertVars, extVars>>

\* Run line 79-81 and closeAll: close and delete every registered client
Shutdown ==
    /\ hpc = "idle"
    /\ hctxDone
    /\ hpc' = "done"
    /\ chst' = [c \in Clients |-> IF c \in hclients THEN "closed" ELSE chst[c]]
    /\ closes' = [c \in Clients |-> IF c \in hclients THEN closes[c] + 1 ELSE closes[c]]
    /\ hclients' = {}
    /\ outbox' = Collect(outbox, chst', wpc)
    /\ UNCHANGED <<hs, wpc, targets, hctxDone, hver, bdata>>
    /\ UNCHANGED <<shipVars, alertVars, extVars>>

HubCancel ==
    /\ Alive
    /\ ~hctxDone
    /\ hctxDone' = TRUE
    /\ UNCHANGED <<hclients, chst, outbox, closes, hs, wpc, hpc, targets, hver, bdata>>
    /\ UNCHANGED <<shipVars, alertVars, extVars>>

HubInit ==
    /\ hclients = {}
    /\ chst = [c \in Clients |-> "none"]
    /\ outbox = [c \in Clients |-> <<>>]
    /\ closes = [c \in Clients |-> 0]
    /\ hs = [c \in Clients |-> "new"]
    /\ wpc = [c \in Clients |-> "off"]
    /\ hpc = "idle"
    /\ targets = {}
    /\ hctxDone = FALSE
    /\ hver = 0
    /\ bdata = buildMessage(0)

\* a Put or an eviction changes what api.BuildSnapshot reads from the store
HubStoreChange ==
    /\ Alive
    /\ hver < MaxHubVer
    /\ hver' = hver + 1
    /\ UNCHANGED <<hclients, chst, outbox, closes, hs, wpc, hpc, targets, hctxDone,
                   bdata>>
    /\ UNCHANGED <<shipVars, alertVars, extVars>>

\* every client is connected and has been sent its first message
HubInitServing ==
    /\ hclients = Clients
    /\ chst = [c \in Clients |-> "open"]
    /\ outbox = [c \in Clients |-> <<>>]
    /\ closes = [c \in Clients |-> 0]
    /\ hs = [c \in Clients |-> "serving"]
    /\ wpc = [c \in Clients |-> "run"]
    /\ hpc = "idle"
    /\ targets = {}
    /\ hctxDone = FALSE
    /\ hver = 0
    /\ bdata = buildMessage(0)

\* disconnects, writers and broadcasts over a store that changes
HubDataNext ==
    \/ \E c \in Clients : ReaderExit(c)
    \/ \E c \in Clients : WriterRecv(c)
    \/ BroadcastStart
    \/ BroadcastSend
    \/ HubStoreChange

HubNext ==
    \/ \E c \in Clients : Upgrade(c)
    \/ \E c \in Clients : InitialSend(c)
    \/ \E c \in Clients : ReaderExit(c)
    \/ \E c \in Clients : WriterRecv(c)
    \/ \E c \in Clients : WriterPingFails(c)
    \/ BroadcastStart
    \/ BroadcastSend
    \/ Shutdown
    \/ HubCancel

\* ---------------------------------------------------------- alert engine
Evaluators == 1..NumEvaluators

\* the zero time.Time: further back than any cooldown
ZeroTime == -1000000

NoAlert == [state |-> "none"]

\* cfg.Rules: name, condition (as strings.Fields splits it), severity and
\* cooldown in minutes
Rules == <<
    [name |-> "high_drop", cond |-> <<"drop_pct", ">", "10">>,
     severity |-> "", cooldown |-> 2],
    [name |-> "is_critical", cond |-> <<"state", "==", "critical">>,
     severity |-> "critical", cooldown |-> 0] >>

Sources == {"otel-1"}

\* the snapshots the receiver hands to Evaluate
Snapshots ==
    [SourceId : Sources, DropPct : {5, 25}, State : {"healthy", "critical"},
     Certs : {<<>>}]

NoSnap == [SourceId |-> "", DropPct |-> 0, State |-> "", Certs |-> <<>>]

Keys == {<<Rules[i].name, src>> : i \in DOMAIN Rules, src \in Sources}

\* strconv.ParseFloat on the right-hand sides that occur in Rules
ParseFloat(str) ==
    CASE str = "10" -> [ok |-> TRUE, v |-> 10]
      [] str = "0" -> [ok |-> TRUE, v |-> 0]
      [] str = "14" -> [ok |-> TRUE, v |-> 14]
      [] str = "60" -> [ok |-> TRUE, v |-> 60]
      [] OTHER -> [ok |-> FALSE, v |-> 0]

\* condition.go numericField; the fields a snapshot of the model does not
\* carry have their zero value
numericField(field, snap) ==
    CASE field = "drop_pct" -> snap.DropPct
      [] OTHER -> 0

\* condition.go compareFloat
compareFloat(v, op, threshold) ==
    CASE op = ">" -> v > threshold
      [] op = ">=" -> v >= threshold
      [] op = "<" -> v < threshold
      [] op = "<=" -> v <= threshold
      [] op = "==" -> v = threshold
      [] OTHER -> FALSE

NoFire == [fires |-> FALSE, value |-> 0]

\* strings.Fields on a string given as its pieces: the " " runs go
Fields(pieces) == SelectSeq(pieces, LAMBDA w : w # " ")

\* the first cert of snap.Certs (DaysLeft of each) that satisfies the comparison
firstCert(certs, op, threshold) ==
    LET hits == {i \in DOMAIN certs : compareFloat(certs[i], op, threshold)}
    IN  IF hits = {} THEN NoFire
        ELSE [fires |-> TRUE,
              value |-> certs[CHOOSE i \in hits : \A j \in hits : i <= j]]

\* condition.go evalCondition, on parts := strings.Fields(cond)
evalCondition(cond, snap) ==
    IF Len(cond) # 3 THEN NoFire
    ELSE LET field == cond[1]
             op == cond[2]
             rhs == cond[3]
         IN  IF field = "state"
             THEN IF op = "==" THEN [fires |-> snap.State = rhs, value |-> 0]
                  ELSE NoFire
             ELSE IF field = "cert_days_left"
             THEN IF ~ParseFloat(rhs).ok THEN NoFire
                  ELSE firstCert(snap.Certs, op, ParseFloat(rhs).v)
             ELSE IF ~ParseFloat(rhs).ok THEN NoFire
                  ELSE [fires |-> compareFloat(numericField(field, snap), op,
                                               ParseFloat(rhs).v),
                        value |-> numericField(field, snap)]

\* Evaluate line 196-199
effectiveCooldownNegativeOnly(rule) ==
    IF rule.cooldown < 0 THEN defaultCooldown ELSE rule.cooldown

effectiveCooldown(rule) ==
    IF rule.cooldown <= 0 THEN defaultCooldown ELSE rule.cooldown

\* Evaluate line 200: now.Sub(e.lastFire[key]) > cooldown
cooldownExpiredAtLeast(t, last, cooldown) == t - last >= cooldown

cooldownExpired(t, last, cooldown) == t - last > cooldown

\* Evaluate line 205-215
newAlert(rule, snap, value, t) ==
    [id |-> <<rule.name, snap.SourceId, t>>,
     rule |-> rule.name,
     source |-> snap.SourceId,
     severity |-> IF rule.severity = "" THEN "warning" ELSE rule.severity,
     value |-> value,
     firedAt |-> t,
     resolvedAt |-> ZeroTime,
     state |-> "firing"]

\* Evaluate line 233-235
resolvedAlertStillFiring(a, t) == [a EXCEPT !.resolvedAt = t]

resolvedAlert(a, t) == [a EXCEPT !.state = "resolved", !.resolvedAt = t]

\* Evaluate line 236
deleteActiveKeep(act, key) == act

deleteActive(act, key) == [act EXCEPT ![key] = NoAlert]

\* Evaluate line 238-241
appendHistoryDropNewest(h, a) ==
    IF Len(h) >= maxHistoryLen THEN h ELSE Append(h, a)

appendHistory(h, a) ==
    LET h2 == Append(h, a)
    IN  IF Len(h2) > maxHistoryLen
        THEN SubSeq(h2, Len(h2) - maxHistoryLen + 1, Len(h2))
        ELSE h2

\* Evaluate starts each delivery with `go e.deliver(&alertCopy)`: the call
\* that started it does not wait for it
awaitsDeliverySync(p, e) == \E d \in p : d.by = e

awaitsDelivery(p, e) == FALSE

NoActiveOut == [op |-> "none"]

\* the orders in which a range over a map can yield the keys of S
Perms(S) ==
    {f \in [1..Cardinality(S) -> S] : \A i, j \in DOMAIN f : f[i] = f[j] => i = j}

\* time passes
TickClock ==
    /\ now < MaxTime
    /\ now' = now + 1
    /\ UNCHANGED <<active, lastFire, history, dispatched, epc, esnap, enow, eidx, nEvals,
                   posting, activeOut>>
    /\ UNCHANGED <<shipVars, hubVars, extVars>>

\* Evaluate line 184-188: called with a snapshot; reads the clock once
EvalStart(e) ==
    /\ epc[e] = "idle"
    /\ nEvals < MaxEvals
    /\ nEvals' = nEvals + 1
    /\ \E snap \in Snapshots :
         /\ esnap' = [esnap EXCEPT ![e] = snap]
         /\ enow' = [enow EXCEPT ![e] = now]
         /\ eidx' = [eidx EXCEPT ![e] = 1]
         /\ epc' = [epc EXCEPT ![e] = IF Len(Rules) = 0 THEN "idle" ELSE "rules"]
    /\ ~awaitsDelivery(posting, e)
    /\ UNCHANGED <<now, active, lastFire, history, dispatched, posting, activeOut>>
    /\ UNCHANGED <<shipVars, hubVars, extVars>>

\* Evaluate line 189-254: one iteration of the loop over e.rules; the state
\* changes happen under e.mu, the delivery is started after the unlock
EvalRule(e) ==
    /\ epc[e] = "rules"
    /\ ~awaitsDelivery(posting, e)
    /\ LET rule == Rules[eidx[e]]
           snap == esnap[e]
           key == <<rule.name, snap.SourceId>>
           res == evalCondition(rule.cond, snap)
       IN  IF res.fires
           THEN IF cooldownExpired(enow[e], lastFire[key], effectiveCooldown(rule))
                THEN LET a == newAlert(rule, snap, res.value, enow[e])
                     IN  /\ active' = [active EXCEPT ![key] = a]
                         /\ lastFire' = [lastFire EXCEPT ![key] = enow[e]]
                         /\ dispatched' = Append(dispatched, a)
                         /\ UNCHANGED history
                ELSE UNCHANGED <<active, lastFire, history, dispatched>>
           ELSE IF active[key] # NoAlert /\ active[key].state = "firing"
                THEN LET a == resolvedAlert(active[key], enow[e])
                     IN  /\ active' = deleteActive(active, key)
                         /\ history' = appendHistory(history, a)
                         /\ dispatched' = Append(dispatched, a)
                         /\ UNCHANGED lastFire
                ELSE UNCHANGED <<active, lastFire, history, dispatched>>
    \* go e.deliver(&alertCopy), after the unlock
    /\ posting' = IF dispatched' # dispatched
                  THEN posting \cup {[i |-> Len(dispatched'), by |-> e]}
                  ELSE posting
    /\ IF eidx[e] < Len(Rules)
       THEN /\ eidx' = [eidx EXCEPT ![e] = @ + 1]
            /\ UNCHANGED <<epc, esnap, enow>>
       ELSE \* the call returns; its locals are gone
            /\ epc' = [epc EXCEPT ![e] = "idle"]
            /\ eidx' = [eidx EXCEPT ![e] = 1]
            /\ esnap' = [esnap EXCEPT ![e] = NoSnap]
            /\ enow' = [enow EXCEPT ![e] = 0]
    /\ UNCHANGED <<now, nEvals, activeOut>>
    /\ UNCHANGED <<shipVars, hubVars, extVars>>

\* deliver: the POST of a delivery is answered, refused, or times out
DeliverDone(d) ==
    /\ d \in posting
    /\ posting' = posting \ {d}
    /\ UNCHANGED <<now, active, lastFire, history, dispatched, epc, esnap, enow, eidx,
                   nEvals, activeOut>>
    /\ UNCHANGED <<shipVars, hubVars, extVars>>

\* deliver line 18-52, post: the task of delivery d issues its POST; the
\* tasks of different deliveries are separate goroutines
DeliverPost(d) ==
    /\ d \in posting
    /\ \A k \in DOMAIN posted : posted[k] # d.i
    /\ posted' = Append(posted, d.i)
    /\ UNCHANGED <<shipVars, hubVars, alertVars>>
    /\ UNCHANGED <<condVars, storeVars, compVars, authVars, boVars, scoreVars, envVars,
                   runVars>>

PostInit == posted = <<>>

\* Active, under e.mu: copies of the firing alerts, in the order the map
\* yields them, then of the history alerts resolved within the last hour
ActiveCall ==
    /\ activeOut = NoActiveOut
    /\ \E order \in Perms({k \in Keys : active[k] # NoAlert}) :
         activeOut' =
            [op |-> "active",
             out |-> [i \in DOMAIN order |-> active[order[i]]]
                     \o SelectSeq(history,
                           LAMBDA a : a.resolvedAt > now - recentWindowHours * 60)]
    /\ UNCHANGED <<now, active, lastFire, history, dispatched, epc, esnap, enow, eidx,
                   nEvals, posting>>
    /\ UNCHANGED <<shipVars, hubVars, extVars>>

\* the caller of Active is done with what it got
ActiveDone ==
    /\ activeOut # NoActiveOut
    /\ activeOut' = NoActiveOut
    /\ UNCHANGED <<now, active, lastFire, history, dispatched, epc, esnap, enow, eidx,
                   nEvals, posting>>
    /\ UNCHANGED <<shipVars, hubVars, extVars>>

AlertInit ==
    /\ now = 0
    /\ active = [k \in Keys |-> NoAlert]
    /\ lastFire = [k \in Keys |-> ZeroTime]
    /\ history = <<>>
    /\ dispatched = <<>>
    /\ posting = {}
    /\ activeOut = NoActiveOut
    /\ epc = [e \in Evaluators |-> "idle"]
    /\ esnap = [e \in Evaluators |-> NoSnap]
    /\ enow = [e \in Evaluators |-> 0]
    /\ eidx = [e \in Evaluators |-> 1]
    /\ nEvals = 0

\* a history left by earlier fire/resolve cycles of is_critical, one cycle
\* every 16 minutes, the last one resolved 15 minutes before the clock of the
\* model starts: what append(e.history, a) has built after k resolutions
pastHistory(k) ==
    [i \in 1..k |->
        [id |-> <<"is_critical", "otel-1", (0 - 16) * (k - i + 1)>>,
         rule |-> "is_critical",
         source |-> "otel-1",
         severity |-> "critical",
         value |-> 0,
         firedAt |-> (0 - 16) * (k - i + 1),
         resolvedAt |-> (0 - 16) * (k - i + 1) + 1,
         state |-> "resolved"]]

\* the engine after a long run: history one short of, or at, maxHistoryLen
AlertInitLong ==
    /\ now = 0
    /\ active = [k \in Keys |-> NoAlert]
    /\ \E k \in {maxHistoryLen - 1, maxHistoryLen} :
          /\ history = pastHistory(k)
          /\ lastFire = [key \in Keys |->
                            IF key[1] = "is_critical" THEN 0 - 16 ELSE ZeroTime]
    /\ dispatched = <<>>
    /\ posting = {}
    /\ activeOut = NoActiveOut
    /\ epc = [e \in Evaluators |-> "idle"]
    /\ esnap = [e \in Evaluators |-> NoSnap]
    /\ enow = [e \in Evaluators |-> 0]
    /\ eidx = [e \in Evaluators |-> 1]
    /\ nEvals = 0

AlertNext ==
    \/ TickClock
    \/ \E e \in Evaluators : EvalStart(e)
    \/ \E e \in Evaluators : EvalRule(e)

\* Evaluate calls made one after another, the clock, and Active
ActiveNext ==
    \/ TickClock
    \/ EvalStart(1)
    \/ EvalRule(1)
    \/ ActiveCall
    \/ ActiveDone

\* Evaluate calls made one after another by a single handler, and the clock
AlertLongNext ==
    \/ TickClock
    \/ EvalStart(1)
    \/ EvalRule(1)

\* Evaluate calls, the deliver tasks they start, and Active, all within one
\* minute of the clock
DeliverNext ==
    \/ \E e \in Evaluators : EvalStart(e)
    \/ \E e \in Evaluators : EvalRule(e)
    \/ \E d \in posting : DeliverDone(d)
    \/ ActiveCall
    \/ ActiveDone

\* Evaluate called serially, with the webhook target seeing the POSTs; the
\* answers to the POSTs are left out
PostNext ==
    \/ TickClock
    \/ EvalStart(1)
    \/ EvalRule(1)
    \/ \E d \in posting : DeliverPost(d)

\* ------------------------------------------------ evalCondition, one call
CondFields == {"drop_pct", "state", "cert_days_left", "bogus"}

CondOps == {">", "<", "==", ">>", "!="}

CondRhs == {"10", "0", "abc", "critical"}

\* condition strings: field op rhs separated by blanks, and malformed ones
CondStrings ==
    {<<f, " ", o, " ", r>> : f \in CondFields, o \in CondOps, r \in CondRhs}
    \cup {<<"drop_pct>10">>, <<"drop_pct", " ", ">10">>, <<>>,
          <<" ", "drop_pct", " ", ">", " ", "10", " ">>,
          <<"drop_pct", " ", ">", " ", "10", " ", "or">>}

CondSnapshots ==
    [SourceId : Sources, DropPct : {5, 25}, State : {"healthy", "critical"},
     Certs : {<<>>, <<30, 5>>}]

\* return evalCondition(cond, snap)
EvalCondCall ==
    /\ condPc = "call"
    /\ condPc' = "done"
    /\ condOut' = evalCondition(Fields(condIn), condSnap)
    /\ UNCHANGED <<condIn, condSnap>>
    /\ UNCHANGED <<coreVars, storeVars, compVars, authVars, boVars, scoreVars, postVars, envVars, runVars>>

\* no call in progress
CondInit ==
    /\ condIn = <<>>
    /\ condSnap = NoSnap
    /\ condOut = NoFire
    /\ condPc = "done"

CondInitAny ==
    /\ condIn \in CondStrings
    /\ condSnap \in CondSnapshots
    /\ condOut = NoFire
    /\ condPc = "call"

CondNext == EvalCondCall

\* ------------------------------------------------- snapshot store, receiver
Handlers == 1..NumHandlers

\* cfg.Server.Snapshot.TTL, in minutes
ttl == 2

StoreIds == {"otel-1", "prom-1"}

NoEntry == [ver |-> 0, updatedAt |-> 0]

NoRpcSnap == [SourceId |-> "", ver |-> 0]

NoObs == [op |-> "none"]

Present(data) == {id \in StoreIds : data[id] # NoEntry}

\* Store.Put: s.data[snap.SourceId] = &Entry{snap, s.now()}
storePutKeepFirst(data, snap, t) ==
    IF data[snap.SourceId] # NoEntry THEN data
    ELSE [data EXCEPT ![snap.SourceId] = [ver |-> snap.ver, updatedAt |-> t]]

storePut(data, snap, t) ==
    [data EXCEPT ![snap.SourceId] = [ver |-> snap.ver, updatedAt |-> t]]

\* Store.List: the entries with e.UpdatedAt.After(s.now().Add(-s.ttl))
storeListAtCutoff(data, t) ==
    {[id |-> id, e |-> data[id]] :
        id \in {i \in Present(data) : data[i].updatedAt >= t - ttl}}

storeList(data, t) ==
    {[id |-> id, e |-> data[id]] :
        id \in {i \in Present(data) : data[i].updatedAt > t - ttl}}

\* Store.Evict(now): deletes the entries with !e.UpdatedAt.After(now.Add(-s.ttl))
storeEvictOlder(data, t) ==
    [id \in StoreIds |->
        IF data[id] # NoEntry /\ data[id].updatedAt < t - ttl
        THEN NoEntry ELSE data[id]]

storeEvict(data, t) ==
    [id \in StoreIds |->
        IF data[id] # NoEntry /\ ~(data[id].updatedAt > t - ttl)
        THEN NoEntry ELSE data[id]]

\* Store.Evict: removed, counted once per delete
evictRemoved(data, t) ==
    Cardinality({id \in Present(data) : ~(data[id].updatedAt > t - ttl)})

\* SendSnapshot line 29-34: an empty source_id is refused at once
sendSnapshotEnter(h, src) ==
    /\ nRpc' = nRpc + 1
    /\ IF src = ""
       THEN /\ rcvResp' = [rcvResp EXCEPT ![h] = "InvalidArgument"]
            /\ UNCHANGED <<rcvPc, rcvSnap>>
       ELSE /\ rcvResp' = [rcvResp EXCEPT ![h] = "none"]
            /\ rcvSnap' = [rcvSnap EXCEPT ![h] =
                              [SourceId |-> src, ver |-> nRpc + 1]]
            /\ rcvPc' = [rcvPc EXCEPT ![h] = "put"]
    /\ UNCHANGED <<stNow, stData, stStopped, stObs, lastApplied, nAccepted>>

\* SendSnapshot is called
RecvCall(h) ==
    /\ rcvPc[h] = "idle"
    /\ nRpc < MaxRpc
    /\ \E src \in StoreIds \cup {""} : sendSnapshotEnter(h, src)
    /\ UNCHANGED <<coreVars, condVars, compVars, authVars, boVars, scoreVars, postVars, envVars, runVars>>

\* r.store.Put(snap), under s.mu
RecvPut(h) ==
    /\ rcvPc[h] = "put"
    /\ stData' = storePut(stData, rcvSnap[h], stNow)
    /\ lastApplied' = [lastApplied EXCEPT ![rcvSnap[h].SourceId] =
                          [ver |-> rcvSnap[h].ver, updatedAt |-> stNow]]
    /\ rcvPc' = [rcvPc EXCEPT ![h] = "return"]
    /\ UNCHANGED <<stNow, stStopped, stObs, rcvSnap, rcvResp, nRpc, nAccepted>>
    /\ UNCHANGED <<coreVars, condVars, compVars, authVars, boVars, scoreVars, postVars, envVars, runVars>>

\* return &pb.SendResponse{Ok: true}, nil
RecvReturn(h) ==
    /\ rcvPc[h] = "return"
    /\ rcvPc' = [rcvPc EXCEPT ![h] = "idle"]
    /\ rcvResp' = [rcvResp EXCEPT ![h] = "Ok"]
    /\ rcvSnap' = [rcvSnap EXCEPT ![h] = NoRpcSnap]
    /\ nAccepted' = nAccepted + 1
    /\ UNCHANGED <<stNow, stData, stStopped, stObs, lastApplied, nRpc>>
    /\ UNCHANGED <<coreVars, condVars, compVars, authVars, boVars, scoreVars, postVars, envVars, runVars>>

\* time passes
StoreTick ==
    /\ stNow < MaxStoreTime
    /\ stNow' = stNow + 1
    /\ UNCHANGED <<stData, stStopped, stObs, lastApplied, rcvPc, rcvSnap, rcvResp, nRpc,
                   nAccepted>>
    /\ UNCHANGED <<coreVars, condVars, compVars, authVars, boVars, scoreVars, postVars, envVars, runVars>>

\* Store.Run: a tick arrives, carrying the time it was sent at, and Evict runs
StoreEvict ==
    /\ ~stStopped
    /\ stObs = NoObs
    /\ \E t \in {stNow - 1, stNow} :
         /\ t >= 0
         /\ stData' = storeEvict(stData, t)
         /\ stObs' = [op |-> "evict", at |-> t, n |-> evictRemoved(stData, t)]
    /\ UNCHANGED <<stNow, stStopped, lastApplied, rcvPc, rcvSnap, rcvResp, nRpc,
                   nAccepted>>
    /\ UNCHANGED <<coreVars, condVars, compVars, authVars, boVars, scoreVars, postVars, envVars, runVars>>

\* the caller of Store.Run cancels ctx
StoreCancel ==
    /\ ~stCtxDone
    /\ stCtxDone' = TRUE
    /\ UNCHANGED <<coreVars, condVars, storeVars, compVars, authVars, boVars, scoreVars,
                   postVars, envVars>>

RunInit == stCtxDone = FALSE

\* Store.Run line 108-109: the select takes ctx.Done() and Run returns
StoreStop ==
    /\ ~stStopped
    /\ stCtxDone
    /\ stStopped' = TRUE
    /\ UNCHANGED <<stNow, stData, stObs, lastApplied, rcvPc, rcvSnap, rcvResp, nRpc,
                   nAccepted>>
    /\ UNCHANGED <<coreVars, condVars, compVars, authVars, boVars, scoreVars, postVars, envVars, runVars>>

\* the caller of Get, List or Count is done with what it got
StoreObsDone ==
    /\ stObs # NoObs
    /\ stObs' = NoObs
    /\ UNCHANGED <<stNow, stData, stStopped, lastApplied, rcvPc, rcvSnap, rcvResp, nRpc,
                   nAccepted>>
    /\ UNCHANGED <<coreVars, condVars, compVars, authVars, boVars, scoreVars, postVars, envVars, runVars>>

StoreGet(id) ==
    /\ stObs = NoObs
    /\ stObs' = [op |-> "get", id |-> id, e |-> stData[id],
                 ok |-> stData[id] # NoEntry]
    /\ UNCHANGED <<stNow, stData, stStopped, lastApplied, rcvPc, rcvSnap, rcvResp, nRpc,
                   nAccepted>>
    /\ UNCHANGED <<coreVars, condVars, compVars, authVars, boVars, scoreVars, postVars, envVars, runVars>>

StoreList ==
    /\ stObs = NoObs
    /\ stObs' = [op |-> "list", at |-> stNow, out |-> storeList(stData, stNow)]
    /\ UNCHANGED <<stNow, stData, stStopped, lastApplied, rcvPc, rcvSnap, rcvResp, nRpc,
                   nAccepted>>
    /\ UNCHANGED <<coreVars, condVars, compVars, authVars, boVars, scoreVars, postVars, envVars, runVars>>

StoreCount ==
    /\ stObs = NoObs
    /\ stObs' = [op |-> "count", n |-> Cardinality(Present(stData))]
    /\ UNCHANGED <<stNow, stData, stStopped, lastApplied, rcvPc, rcvSnap, rcvResp, nRpc,
                   nAccepted>>
    /\ UNCHANGED <<coreVars, condVars, compVars, authVars, boVars, scoreVars, postVars, envVars, runVars>>

StoreInit ==
    /\ stNow = 0
    /\ stData = [id \in StoreIds |-> NoEntry]
    /\ stStopped = FALSE
    /\ stObs = NoObs
    /\ lastApplied = [id \in StoreIds |-> NoEntry]
    /\ rcvPc = [h \in Handlers |-> "idle"]
    /\ rcvSnap = [h \in Handlers |-> NoRpcSnap]
    /\ rcvResp = [h \in Handlers |-> "none"]
    /\ nRpc = 0
    /\ nAccepted = 0

\* ----------------------------------------------- gRPC auth interceptor
AuthModes == {"apikey", "none"}

AuthKeys == {"", "k1"}

\* metadata.FromIncomingContext and md.Get(header): no metadata at all, no
\* value under the header, or the values under it
Metadata ==
    {[ok |-> FALSE, vals |-> <<>>], [ok |-> TRUE, vals |-> <<>>],
     [ok |-> TRUE, vals |-> <<"">>], [ok |-> TRUE, vals |-> <<"k1">>],
     [ok |-> TRUE, vals |-> <<"bad">>]}

NoReq == [n |-> 0, md |-> [ok |-> FALSE, vals |-> <<>>], src |-> ""]

\* APIKeyInterceptor: TRUE when the call is handed to the handler
authAllowsNoHeader(mode, key, md) ==
    IF mode # "apikey" \/ key = "" THEN TRUE
    ELSE IF ~md.ok THEN FALSE
    ELSE IF Len(md.vals) > 0 /\ md.vals[1] # key THEN FALSE
    ELSE TRUE

authAllows(mode, key, md) ==
    IF mode # "apikey" \/ key = "" THEN TRUE
    ELSE IF ~md.ok THEN FALSE
    ELSE IF Len(md.vals) = 0 \/ md.vals[1] # key THEN FALSE
    ELSE TRUE

\* a SendSnapshot request arrives at the gRPC server: the interceptor runs,
\* and hands the request to the receiver or answers Unauthenticated
AuthCall(h) ==
    /\ rcvPc[h] = "idle"
    /\ nRpc < MaxRpc
    /\ \E md \in Metadata, src \in StoreIds \cup {""} :
         /\ authReq' = [authReq EXCEPT ![h] =
                            [n |-> nRpc + 1, md |-> md, src |-> src]]
         /\ IF authAllows(authMode, authKey, md)
            THEN sendSnapshotEnter(h, src)
            ELSE /\ nRpc' = nRpc + 1
                 /\ rcvResp' = [rcvResp EXCEPT ![h] = "Unauthenticated"]
                 /\ UNCHANGED <<rcvPc, rcvSnap>>
                 /\ UNCHANGED <<stNow, stData, stStopped, stObs, lastApplied,
                                nAccepted>>
    /\ UNCHANGED <<authMode, authKey>>
    /\ UNCHANGED <<coreVars, condVars, compVars, boVars, scoreVars, postVars, envVars, runVars>>

\* no authentication configured
AuthInit ==
    /\ authMode = "none"
    /\ authKey = ""
    /\ authReq = [h \in Handlers |-> NoReq]

\* any configuration of the interceptor
AuthInitAny ==
    /\ authMode \in AuthModes
    /\ authKey \in AuthKeys
    /\ authReq = [h \in Handlers |-> NoReq]

AuthNext ==
    \/ \E h \in Handlers : AuthCall(h)
    \/ \E h \in Handlers : RecvPut(h)
    \/ \E h \in Handlers : RecvReturn(h)

StoreNext ==
    \/ \E h \in Handlers : RecvCall(h)
    \/ \E h \in Handlers : RecvPut(h)
    \/ \E h \in Handlers : RecvReturn(h)
    \/ StoreTick
    \/ StoreEvict
    \/ StoreCancel
    \/ StoreStop
    \/ \E id \in StoreIds : StoreGet(id)
    \/ StoreList
    \/ StoreCount
    \/ StoreObsDone

\* Store.Run beside the receiver
StoreRunNext ==
    \/ \E h \in Handlers : RecvCall(h)
    \/ \E h \in Handlers : RecvPut(h)
    \/ \E h \in Handlers : RecvReturn(h)
    \/ StoreTick
    \/ StoreEvict
    \/ StoreCancel
    \/ StoreStop
    \/ StoreObsDone

\* a tick that carries the present time
StoreEvictFresh == StoreEvict /\ stObs'.at = stNow

\* the ticker keeps sending the time, Run keeps being scheduled and takes a
\* ready ctx.Done() case in the end
StoreRunFairness ==
    /\ SF_vars(StoreEvictFresh)
    /\ WF_vars(StoreObsDone)
    /\ SF_vars(StoreStop)

\* ------------------------------------------------------ exact arithmetic
\* float64 values are kept as fractions n/d with d > 0, in lowest terms
RECURSIVE GCD(_, _)
GCD(a, b) == IF b = 0 THEN a ELSE GCD(b, a % b)

Abs(x) == IF x < 0 THEN 0 - x ELSE x

\* a float64 that is not a number
NaN == [n |-> 0, d |-> 0]

R(n, d) ==
    IF d = 0 THEN NaN ELSE
    LET sn == IF d < 0 THEN 0 - n ELSE n
        sd == Abs(d)
        g == GCD(Abs(sn), sd)
    IN  [n |-> sn \div g, d |-> sd \div g]

RInt(k) == [n |-> k, d |-> 1]

RAdd(a, b) == R(a.n * b.d + b.n * a.d, a.d * b.d)

RSub(a, b) == R(a.n * b.d - b.n * a.d, a.d * b.d)

RMul(a, b) == R(a.n * b.n, a.d * b.d)

\* a / b, b not zero
RDiv(a, b) == R(a.n * b.d, a.d * b.n)

\* comparisons with NaN are false
RLt(a, b) == a.d # 0 /\ b.d # 0 /\ a.n * b.d < b.n * a.d

RLe(a, b) == a.d # 0 /\ b.d # 0 /\ a.n * b.d <= b.n * a.d

\* ------------------------------------------------- compute engine (agent)
CompSources == {"src-a", "src-b"}

signalTypes == <<"metrics", "logs", "traces">>

NoCounters == [metrics |-> 0, logs |-> 0, traces |-> 0]

\* what the scrapers hand to Process: counters of a successful scrape, or a
\* failed scrape with Err set
ScrapeResults ==
    {[SourceID |-> src, Err |-> "",
      Received |-> [metrics |-> m, logs |-> 0, traces |-> r],
      Dropped |-> [metrics |-> 0, logs |-> 0, traces |-> d]] :
        src \in CompSources, m \in {0}, r \in {10, 15}, d \in {0, 1}}
    \cup {[SourceID |-> src, Err |-> "timeout",
           Received |-> NoCounters, Dropped |-> NoCounters] : src \in CompSources}

\* st.prev = nil
NoRes == [SourceID |-> "", Err |-> "", Received |-> NoCounters, Dropped |-> NoCounters]

\* &sourceState{}
NewSourceState == [prev |-> NoRes, prevTime |-> 0, hasBaseline |-> FALSE, history |-> <<>>]

NoResult == [SourceID |-> ""]

\* score.go clamp01
clamp01(v) == IF RLt(v, RInt(0)) THEN RInt(0) ELSE IF RLt(RInt(1), v) THEN RInt(1) ELSE v

\* score.go stateFromScore
stateFromScoreAbove(score) ==
    IF RLt(RInt(85), score) THEN "healthy"
    ELSE IF RLt(RInt(60), score) THEN "degraded"
    ELSE "critical"

stateFromScore(score) ==
    IF RLe(RInt(85), score) THEN "healthy"
    ELSE IF RLe(RInt(60), score) THEN "degraded"
    ELSE "critical"

\* score.go Compute
Compute(in) ==
    IF in.UptimePct = RInt(0) /\ in.DropPct = RInt(0) /\ in.RecoveryRate = RInt(0)
    THEN [Score |-> RInt(0), State |-> "unknown",
          DropFactor |-> RInt(0), LatencyFactor |-> RInt(0),
          RecoveryFactor |-> RInt(0), UptimeFactor |-> RInt(0)]
    ELSE LET dropFactor == RSub(RInt(1), clamp01(RDiv(in.DropPct, RInt(100))))
             latencyFactor ==
                 IF RLt(RInt(0), in.BaselineLatencyMs)
                 THEN RSub(RInt(1), clamp01(RDiv(in.LatencyP95ms, in.BaselineLatencyMs)))
                 ELSE RInt(1)
             recoveryFactor == clamp01(RDiv(in.RecoveryRate, RInt(100)))
             uptimeFactor == clamp01(RDiv(in.UptimePct, RInt(100)))
             score == RMul(RAdd(RAdd(RMul(dropFactor, R(40, 100)),
                                     RMul(latencyFactor, R(30, 100))),
                                RAdd(RMul(recoveryFactor, R(20, 100)),
                                     RMul(uptimeFactor, R(10, 100)))),
                           RInt(100))
         IN  [Score |-> score, State |-> stateFromScore(score),
              DropFactor |-> dropFactor, LatencyFactor |-> latencyFactor,
              RecoveryFactor |-> recoveryFactor, UptimeFactor |-> uptimeFactor]

\* percentages handed to Compute, some outside 0..100
ScorePcts == {RInt(k) : k \in {0 - 50, 0, 25, 50, 100, 150}}

\* latency and baseline in milliseconds
ScoreLatencies == {RInt(k) : k \in {0, 100, 300}}

ScoreBaselines == {RInt(k) : k \in {0 - 200, 0, 200}}

ScoreInputs ==
    [DropPct : ScorePcts, RecoveryRate : ScorePcts, UptimePct : ScorePcts,
     LatencyP95ms : ScoreLatencies, BaselineLatencyMs : ScoreBaselines]

\* any float64, a NaN included
ScoreInputsAny ==
    [DropPct : ScorePcts \cup {NaN}, RecoveryRate : ScorePcts \cup {NaN},
     UptimePct : ScorePcts \cup {NaN},
     LatencyP95ms : {RInt(0), RInt(300), NaN},
     BaselineLatencyMs : {RInt(0), RInt(200), NaN}]

NoInput == [DropPct |-> NaN]

\* Compute(in) is called
ComputeCall(in) ==
    /\ scoreIn = NoInput
    /\ scoreIn' = in
    /\ scoreRes' = Compute(in)
    /\ UNCHANGED <<coreVars, condVars, storeVars, compVars, authVars, boVars, postVars, envVars, runVars>>

ScoreInit ==
    /\ scoreIn = NoInput
    /\ scoreRes = [State |-> ""]

\* the caller has used the Output
ComputeDone ==
    /\ scoreIn # NoInput
    /\ scoreIn' = NoInput
    /\ scoreRes' = [State |-> ""]
    /\ UNCHANGED <<coreVars, condVars, storeVars, compVars, authVars, boVars, postVars, envVars, runVars>>

ScoreNext == (\E in \in ScoreInputs : ComputeCall(in)) \/ ComputeDone

ScoreAnyNext == (\E in \in ScoreInputsAny : ComputeCall(in)) \/ ComputeDone

\* engine.go deltaOf
deltaOfSigned(current, previous) == current - previous

deltaOf(current, previous) ==
    IF current - previous < 0 THEN 0 ELSE current - previous

\* engine.go recordScrape
recordScrapeLate(hist, success) ==
    Append(IF Len(hist) > uptimeWindow THEN Tail(hist) ELSE hist, success)

recordScrape(hist, success) ==
    Append(IF Len(hist) >= uptimeWindow THEN Tail(hist) ELSE hist, success)

\* engine.go uptimePct
uptimePct(hist) ==
    IF Len(hist) = 0 THEN RInt(100)
    ELSE RMul(R(Cardinality({i \in DOMAIN hist : hist[i]}), Len(hist)),
              RInt(100))

\* engine.go updateBaseline
updateBaselineAlways(st, res, t) ==
    [st EXCEPT !.prev = res, !.prevTime = t, !.hasBaseline = TRUE]

updateBaseline(st, res, t) ==
    IF res.Err = ""
    THEN [st EXCEPT !.prev = res, !.prevTime = t, !.hasBaseline = TRUE]
    ELSE st

\* Process line 89: no baseline yet
firstScrapeByHistory(st) == Len(st.history) <= 1

firstScrape(st) == ~st.hasBaseline

\* Process line 97-100: now.Sub(st.prevTime).Minutes(), 1 when not positive;
\* times are in half-minutes
elapsedMinutesFloored(t, prevTime) ==
    IF RLt(R(t - prevTime, 2), RInt(1)) THEN RInt(1) ELSE R(t - prevTime, 2)

elapsedMinutes(t, prevTime) ==
    IF RLe(R(t - prevTime, 2), RInt(0)) THEN RInt(1) ELSE R(t - prevTime, 2)

\* Process line 121: only the signals that have seen any traffic
hasTrafficAlways(recvDelta, dropDelta) == TRUE

hasTraffic(recvDelta, dropDelta) == recvDelta > 0 \/ dropDelta > 0

\* Process line 104-129, for one signal
signalResult(sig, res, prev, elapsed) ==
    LET recvDelta == deltaOf(res.Received[sig], prev.Received[sig])
        dropDelta == deltaOf(res.Dropped[sig], prev.Dropped[sig])
        total == recvDelta + dropDelta
    IN  [Type |-> sig,
         recvDelta |-> recvDelta,
         dropDelta |-> dropDelta,
         ReceivedPM |-> RDiv(RInt(recvDelta), elapsed),
         DroppedPM |-> RDiv(RInt(dropDelta), elapsed),
         DropPct |-> IF total > 0 THEN RMul(R(dropDelta, total), RInt(100))
                     ELSE RInt(0)]

\* Process line 141: the share of the traffic that was not dropped
recoveryRateSameAsDrop(dropPct) == dropPct

recoveryRate(dropPct) == RSub(RInt(100), dropPct)

RECURSIVE SumSeq(_)
SumSeq(q) == IF q = <<>> THEN 0 ELSE Head(q) + SumSeq(Tail(q))

\* Process line 68-78: the base result; the Extra map of a result (line 152-168)
\* is left out, no counter below depends on it
baseResult(res, t, st) ==
    [SourceID |-> res.SourceID, Timestamp |-> t, UptimePct |-> uptimePct(st.history),
     State |-> "", DropPct |-> RInt(0), RecoveryRate |-> RInt(0),
     ThroughputPM |-> RInt(0), StrengthScore |-> RInt(0), Signals |-> <<>>,
     ErrorMessage |-> ""]

\* Process line 97-150: rates and score against the baseline
steadyResult(res, t, st) ==
    LET elapsed == elapsedMinutes(t, st.prevTime)
        all == [i \in DOMAIN signalTypes |->
                   signalResult(signalTypes[i], res, st.prev, elapsed)]
        totalRecvDelta == SumSeq([i \in DOMAIN all |-> all[i].recvDelta])
        totalDropDelta == SumSeq([i \in DOMAIN all |-> all[i].dropDelta])
        totalDelta == totalRecvDelta + totalDropDelta
        dropPct == IF totalDelta > 0
                   THEN RMul(R(totalDropDelta, totalDelta), RInt(100))
                   ELSE RInt(0)
        recovery == recoveryRate(dropPct)
        scoreOut == Compute([DropPct |-> dropPct, RecoveryRate |-> recovery,
                             UptimePct |-> uptimePct(st.history),
                             LatencyP95ms |-> RInt(0), BaselineLatencyMs |-> RInt(0)])
        kept == SelectSeq(all, LAMBDA sr : hasTraffic(sr.recvDelta, sr.dropDelta))
    IN  [baseResult(res, t, st) EXCEPT
            !.Signals = [i \in DOMAIN kept |->
                            [Type |-> kept[i].Type,
                             ReceivedPM |-> kept[i].ReceivedPM,
                             DroppedPM |-> kept[i].DroppedPM,
                             DropPct |-> kept[i].DropPct]],
            !.DropPct = dropPct,
            !.ThroughputPM = RDiv(RInt(totalRecvDelta), elapsed),
            !.RecoveryRate = recovery,
            !.State = scoreOut.State,
            !.StrengthScore = scoreOut.Score]

\* engine.go stateFor: e.states holds one *sourceState per source id, and
\* Process writes through the pointer it got for res.SourceID
withStateShared(states, id, st) == [src \in DOMAIN states |-> st]

withState(states, id, st) == [states EXCEPT ![id] = st]

\* Engine.Process(res, now), under e.mu
Process(res, t) ==
    /\ nProcess < MaxProcess
    /\ nProcess' = nProcess + 1
    /\ cin' = [res |-> res, now |-> t, prev |-> cstates[res.SourceID].prev]
    /\ LET st == [cstates[res.SourceID] EXCEPT
                     !.history = recordScrape(@, res.Err = "")]
       IN  /\ cout' = IF res.Err # ""
                      THEN [baseResult(res, t, st) EXCEPT
                               !.State = "unknown", !.ErrorMessage = res.Err]
                      ELSE IF firstScrape(st)
                      THEN [baseResult(res, t, st) EXCEPT !.State = "unknown"]
                      ELSE steadyResult(res, t, st)
           /\ cstates' = withState(cstates, res.SourceID, updateBaseline(st, res, t))
    /\ clastOk' = IF res.Err = ""
                  THEN [clastOk EXCEPT ![res.SourceID] = [res |-> res, now |-> t, seen |-> TRUE]]
                  ELSE clastOk
    /\ UNCHANGED <<coreVars, condVars, storeVars, authVars, boVars, scoreVars, postVars, envVars, runVars>>

CompInit ==
    /\ cstates = [src \in CompSources |-> NewSourceState]
    /\ cout = NoResult
    /\ cin = [res |-> NoRes, now |-> 0, prev |-> NoRes]
    /\ clastOk = [src \in CompSources |-> [res |-> NoRes, now |-> 0, seen |-> FALSE]]
    /\ nProcess = 0

\* outcome windows of a source that has been scraped 19 or 20 times: all
\* failures, all successes, and failures alternating with successes
WindowHistories ==
    UNION {{[i \in 1..n |-> FALSE], [i \in 1..n |-> TRUE], [i \in 1..n |-> i % 2 = 0]} :
              n \in {uptimeWindow - 1, uptimeWindow}}

\* the successful scrape such a source was last baselined on
WindowBaseline ==
    [SourceID |-> "src-a", Err |-> "",
     Received |-> [metrics |-> 0, logs |-> 0, traces |-> 10],
     Dropped |-> NoCounters]

\* an engine whose source src-a has a long scrape history; src-b is new
CompInitWindow ==
    /\ \E h \in WindowHistories :
          LET seen == \E i \in DOMAIN h : h[i]
          IN  /\ cstates = [src \in CompSources |->
                    IF src = "src-a"
                    THEN [prev |-> IF seen THEN WindowBaseline ELSE NoRes,
                          prevTime |-> 0, hasBaseline |-> seen, history |-> h]
                    ELSE NewSourceState]
              /\ clastOk = [src \in CompSources |->
                    IF src = "src-a" /\ seen
                    THEN [res |-> WindowBaseline, now |-> 0, seen |-> TRUE]
                    ELSE [res |-> NoRes, now |-> 0, seen |-> FALSE]]
    /\ cout = NoResult
    /\ cin = [res |-> NoRes, now |-> 0, prev |-> NoRes]
    /\ nProcess = 0

CompNext == \E res \in ScrapeResults : \E t \in 0..MaxCompTime : Process(res, t)

ExtInit == CondInit /\ StoreInit /\ CompInit /\ AuthInit /\ BoInit /\ ScoreInit /\ PostInit /\ EnvInit /\ RunInit

\* ------------------------------------------------------- shipper properties
\* the error codes the documentation calls permanent
PermanentCodes == {"InvalidArgument", "Unauthenticated", "PermissionDenied"}

\* drain has never received a snapshot
NoConsumerYet == inflight = None /\ lastRes.id = None

AllShipIdle == \A p \in Producers : ppc[p] = "idle"

\* a step in which a SendSnapshot call returns
SendReturns == rpc = "sending" /\ rpc' # "sending"

\* C1: a Ship call never waits for a consumer: it is never at its blocking
\* send (line 68) with the buffer full.
C1_ShipNeverBlocks ==
    \A p \in Producers : ~(ppc[p] = "send" /\ Len(buf) >= cap)

\* C2: after a send failed with a permanent error the snapshot is neither in
\* the buffer nor being sent again.
C2_PermanentDiscarded ==
    lastRes.res \in PermanentCodes =>
        /\ lastRes.id \notin Range(buf)
        /\ inflight # lastRes.id

\* C3: snapshots reach the server in the order in which they were enqueued.
C3_InOrderDelivery ==
    \A i, j \in DOMAIN delivered : i < j => delivered[i] < delivered[j]

\* C4: after a transient send failure the failed snapshot is put at the head
\* of the buffer when there is room, and the buffer is unchanged when full.
C4_RequeueAtHead ==
    [][(SendReturns /\ lastRes'.res \in ErrCodes \ PermanentCodes) =>
          buf' = IF Len(buf) < cap THEN <<inflight>> \o buf ELSE buf]_vars

\* C5: the buffer never holds more than cap snapshots, and with no consumer,
\* after k completed Ship calls it holds exactly the last min(k, cap) shipped
\* snapshots in ship order.
C5_DropOldest ==
    /\ Len(buf) <= cap
    /\ (NoConsumerYet /\ AllShipIdle) =>
          /\ nEnq = nCalls
          /\ buf = [i \in 1..Min(nCalls, cap) |-> nCalls - Min(nCalls, cap) + i]

C5_Witness ==
    /\ NoConsumerYet /\ AllShipIdle
    /\ nCalls >= cap + 2
    /\ Len(buf) = cap

C29_BackoffBounded ==
    /\ [](boCurrent >= 1 /\ boCurrent <= 60)
    /\ [][boWait' # boWait =>
            /\ boWait' >= 0 /\ boWait' <= 2 * 60 * 1000
            /\ 4 * (boWait' - boCurrent * 1000) <= boCurrent * 1000
            /\ 4 * (boCurrent * 1000 - boWait') <= boCurrent * 1000]_vars
    /\ [][boCurrent' # boCurrent =>
            \/ boCurrent' = IF 2 * boCurrent > 60 THEN 60 ELSE 2 * boCurrent
            \/ boCurrent' = 1]_vars
    /\ [][(boCurrent' = boCurrent /\ boWait' # boWait) => boCurrent = 60]_vars

\* the base has reached the cap, a wait above it was returned, and a reset
\* has taken the base back to 1 s
C29_Witness ==
    /\ boCurrent = 1
    /\ boWait > 60 * 1000

\* C28: once ctx is cancelled Run never dials and never starts a send again,
\* and it returns: from the top of its loop, from either backoff wait and
\* from the drain loop's select the way out is open, and after its return Run
\* does nothing more.
C28_CancelStopsRun ==
    /\ [][ctxDone =>
            /\ ~(~connOpen /\ connOpen')
            /\ ~(rpc # "sending" /\ rpc' = "sending")
            /\ (rpc = "done" => rpc' = "done")]_vars
    /\ [](ctxDone =>
            /\ (rpc = "top" => ENABLED (RunTop /\ rpc' = "done"))
            /\ (rpc \in {"dialwait", "lostwait"} => ENABLED (RunWait /\ rpc' = "done"))
            /\ (rpc = "drain" => ENABLED (DrainSelect /\ rpc' = "closing"))
            /\ (rpc = "closing" => ENABLED (RunClosing /\ rpc' = "done")))

\* ----------------------------------------------------------- hub properties
\* C7: each client's outbox is closed at most once, exactly when the client
\* leaves the registry; a client is registered iff its outbox is open, and a
\* client that left the registry never re-enters it.
C7_CloseOnce ==
    /\ [](\A c \in Clients :
            /\ closes[c] <= 1
            /\ c \in hclients <=> chst[c] = "open"
            /\ chst[c] = "closed" <=> closes[c] = 1)
    /\ [][\A c \in Clients :
            /\ (c \in hclients /\ c \notin hclients') => closes'[c] = closes[c] + 1
            /\ closes'[c] # closes[c] => (c \in hclients /\ c \notin hclients')
            /\ (c \notin hclients /\ c \in hclients') => chst[c] = "none"]_vars

\* before any shutdown, one client has been evicted as a slow consumer (its
\* reader still runs) and another was unregistered when its reader returned
C7_Witness ==
    /\ ~hctxDone
    /\ \E c, d \in Clients :
         /\ c # d
         /\ closes[c] = 1 /\ hs[c] = "serving" /\ Len(outbox[c]) = sendBufSize
         /\ closes[d] = 1 /\ hs[d] = "gone"

\* C8: a broadcast unregisters a client whose outbox holds sendBufSize
\* messages at once, a client with a closed outbox gets no further message,
\* and when a broadcast with such a slow client among the clients is over,
\* every client still registered has been served by it.
C8_SlowClientEvicted ==
    /\ []((hpc # "bcast" /\ \E s \in Clients : Len(outbox[s]) = sendBufSize)
             => targets \cap hclients = {})
    /\ [][\A c \in Clients :
            /\ (hpc = "bcast" /\ c \in targets /\ c \notin targets' /\ chst[c] = "open") =>
                  IF Len(outbox[c]) = sendBufSize
                  THEN c \notin hclients' /\ chst'[c] = "closed"
                  ELSE outbox'[c] = Append(outbox[c], bdata)
            /\ chst[c] = "closed" => Len(outbox'[c]) <= Len(outbox[c])]_vars

\* C26: one tick builds one payload and enqueues it exactly once to every
\* client registered at the time of the tick whose outbox has room, the same
\* payload for all of them (a client that has left in the meantime aside), so
\* when the broadcast is over no client of the tick that is still registered
\* has been left out; a client's outbox is first in, first out.
C26_OneTickOnePayload ==
    /\ [][(hpc # "bcast" /\ hpc' = "bcast") =>
            /\ targets' = hclients
            /\ bdata' = buildMessage(hver)
            /\ outbox' = outbox]_vars
    /\ [][(hpc = "bcast") =>
            /\ bdata' = bdata
            /\ \A c \in targets \ targets' :
                  (chst[c] = "open" /\ Len(outbox[c]) < sendBufSize) =>
                      outbox'[c] = Append(outbox[c], bdata)]_vars
    /\ [](hpc # "bcast" => targets \cap hclients = {})
    /\ [][\A c \in Clients :
            \/ outbox'[c] = outbox[c]
            \/ \E m \in {buildMessage(v) : v \in 0..MaxHubVer} :
                  outbox'[c] = Append(outbox[c], m)
            \/ outbox[c] # <<>> /\ outbox'[c] = Tail(outbox[c])
            \/ chst'[c] = "closed" /\ wpc'[c] # "run" /\ outbox'[c] = <<>>]_vars

C25_CancelClosesAll ==
    /\ [][(hpc # "done" /\ hpc' = "done") =>
            /\ \A c \in hclients : closes[c] = 0 /\ closes'[c] = 1
            /\ \A c \in Clients \ hclients : closes'[c] = closes[c]
            /\ hclients' = {}]_vars
    /\ [][\A c \in Clients : chst[c] = "closed" => closes'[c] = closes[c]]_vars
    /\ (hctxDone ~> (hpc = "done"))
    /\ \A c \in Clients :
          (hpc = "done" /\ chst[c] = "closed") ~> (wpc[c] \in {"bye", "exit"})

\* --------------------------------------------------- alert engine properties
\* the cooldown of a rule: the configured one, 15 minutes when none is set
claimCooldown(rule) == IF rule.cooldown > 0 THEN rule.cooldown ELSE 15

\* Evaluate call e finishes one rule in this step
RuleStep(e) == epc[e] = "rules" /\ (eidx'[e] # eidx[e] \/ epc'[e] # "rules")

StepKey(e) == <<Rules[eidx[e]].name, esnap[e].SourceId>>

StepFires(e) == evalCondition(Rules[eidx[e]].cond, esnap[e]).fires

FiringDispatches(rule, src) ==
    {i \in DOMAIN dispatched :
        /\ dispatched[i].state = "firing"
        /\ dispatched[i].rule = rule /\ dispatched[i].source = src}

\* C9: a snapshot whose condition holds fires (new firing alert in active,
\* lastFire = now, one delivery) iff more than the cooldown has passed since
\* the key's last fire, so any two fires of one key are more than the
\* cooldown apart, whatever the interleaving of Evaluate calls.
C9_FireOncePerCooldown ==
    /\ [](\A r \in DOMAIN Rules : \A src \in Sources :
            \A i, j \in FiringDispatches(Rules[r].name, src) :
               i < j => \/ dispatched[j].firedAt - dispatched[i].firedAt
                              > claimCooldown(Rules[r])
                        \/ dispatched[i].firedAt - dispatched[j].firedAt
                              > claimCooldown(Rules[r]))
    /\ [][\A e \in Evaluators : (RuleStep(e) /\ StepFires(e)) =>
            IF enow[e] - lastFire[StepKey(e)] > claimCooldown(Rules[eidx[e]])
            THEN /\ active'[StepKey(e)].state = "firing"
                 /\ active'[StepKey(e)].firedAt = enow[e]
                 /\ lastFire'[StepKey(e)] = enow[e]
                 /\ dispatched' = Append(dispatched, active'[StepKey(e)])
            ELSE UNCHANGED <<active, lastFire, history, dispatched>>]_vars

\* an Evaluate call has just been through high_drop with a firing snapshot
\* inside the cooldown window of an earlier fire, and did not fire
C9_Witness ==
    \E e \in Evaluators :
       /\ epc[e] = "rules" /\ eidx[e] = 2
       /\ esnap[e].DropPct = 25
       /\ lastFire[<<"high_drop", esnap[e].SourceId>>] < enow[e]
       /\ enow[e] - lastFire[<<"high_drop", esnap[e].SourceId>>] <= 2
       /\ Cardinality(FiringDispatches("high_drop", esnap[e].SourceId)) = 1

\* C10: a snapshot whose condition is false resolves the key's firing alert
\* (state resolved, resolved_at = now, out of active, last in history, one
\* resolved delivery); with no active alert for the key it changes nothing.
C10_ResolveOnce ==
    /\ [](\A i, j \in DOMAIN dispatched :
            (i < j /\ dispatched[i].state = "resolved") =>
                dispatched[j] # dispatched[i])
    /\ [][\A e \in Evaluators : (RuleStep(e) /\ ~StepFires(e)) =>
            IF active[StepKey(e)] # NoAlert
            THEN /\ active'[StepKey(e)] = NoAlert
                 /\ Len(history') = Len(history) + 1
                 /\ history'[Len(history')] =
                       [active[StepKey(e)] EXCEPT !.state = "resolved",
                                                  !.resolvedAt = enow[e]]
                 /\ SubSeq(history', 1, Len(history)) = history
                 /\ dispatched' = Append(dispatched, history'[Len(history')])
                 /\ UNCHANGED lastFire
            ELSE UNCHANGED <<active, lastFire, history, dispatched>>]_vars

\* high_drop fired and was resolved by an earlier call; a later call has just
\* been through high_drop with a non-firing snapshot and dispatched nothing
C10_Witness ==
    \E e \in Evaluators :
       /\ epc[e] = "rules" /\ eidx[e] = 2
       /\ esnap[e].DropPct = 5
       /\ Len(history) = 1 /\ history[1].rule = "high_drop"
       /\ history[1].resolvedAt < enow[e]
       /\ Len(dispatched) = 2
       /\ active[<<"high_drop", esnap[e].SourceId>>] = NoAlert

C11_ActiveHistoryDisjoint ==
    /\ [](/\ \A k \in Keys : active[k] # NoAlert =>
                /\ active[k].state = "firing"
                /\ \A i \in DOMAIN history : history[i].id # active[k].id
          /\ \A i \in DOMAIN history :
                /\ history[i].state = "resolved"
                /\ history[i].resolvedAt # ZeroTime
                /\ \A k \in Keys : active[k] # history[i]
          /\ Len(history) <= 200)
    /\ [][/\ history' # history =>
               /\ Len(history') = IF Len(history) < 200 THEN Len(history) + 1
                                  ELSE 200
               /\ \A i \in 1..(Len(history') - 1) :
                     history'[i] = history[i + Len(history) + 1 - Len(history')]
          /\ \A k \in Keys : (active[k] # NoAlert /\ active'[k] = NoAlert) =>
               /\ history'[Len(history')].id = active[k].id
               /\ history'[Len(history')].state = "resolved"]_vars

\* a full history has taken one more resolved alert and lost its oldest,
\* while another alert is firing
C11_Witness ==
    /\ Len(history) = 200
    /\ history[200].resolvedAt >= 0
    /\ history[1] # pastHistory(200)[1]
    /\ history[1] # pastHistory(199)[1]
    /\ \E k \in Keys : active[k] # NoAlert

\* C23: a rule whose configured cooldown is zero or negative behaves like the
\* same rule with a cooldown of 15 minutes: it gets the cooldown that rule
\* gets, and a firing snapshot fires iff more than 15 minutes have passed
\* since the key's last fire, so never less than 15 minutes after a fire.
C23_NonPositiveCooldownIsDefault ==
    /\ [](\A r \in DOMAIN Rules : \A c \in {0 - 2, 0 - 1, 0} :
             effectiveCooldown([Rules[r] EXCEPT !.cooldown = c])
                = effectiveCooldown([Rules[r] EXCEPT !.cooldown = 15]))
    /\ [][\A e \in Evaluators :
             (RuleStep(e) /\ StepFires(e) /\ Rules[eidx[e]].cooldown <= 0) =>
                /\ (dispatched' # dispatched)
                      <=> (enow[e] - lastFire[StepKey(e)] > 15)
                /\ (enow[e] - lastFire[StepKey(e)] < 15) =>
                      UNCHANGED <<active, lastFire, history, dispatched>>]_vars

\* is_critical (cooldown 0) fired 16 minutes after its last fire, and an
\* Evaluate call has reached it again with a firing snapshot read less than
\* 15 minutes after that fire
C23_Witness ==
    \E e \in Evaluators :
       /\ epc[e] = "rules" /\ Rules[eidx[e]].name = "is_critical"
       /\ Rules[eidx[e]].cooldown <= 0
       /\ esnap[e].State = "critical"
       /\ LET key == <<"is_critical", esnap[e].SourceId>>
          IN  /\ active[key] # NoAlert
              /\ active[key].firedAt = lastFire[key]
              /\ lastFire[key] = 0
              /\ enow[e] > lastFire[key]
              /\ enow[e] - lastFire[key] < 15
       /\ \E i \in DOMAIN history : history[i].firedAt = 0 - 16

\* C22: Active returns copies of exactly the firing alerts plus the history
\* alerts resolved within the last hour, sorted newest first, and leaves the
\* engine's state as it was.
C22_ActiveSortedNewestFirst ==
    [][(activeOut = NoActiveOut /\ activeOut' # NoActiveOut) =>
         LET out == activeOut'.out
             want == {active[k] : k \in {q \in Keys : active[q] # NoAlert}}
                     \cup {history[i] : i \in {j \in DOMAIN history :
                                  now - history[j].resolvedAt < 60}}
         IN  /\ {out[i] : i \in DOMAIN out} = want
             /\ Len(out) = Cardinality(want)
             /\ \A i, j \in DOMAIN out : i < j => out[i].firedAt >= out[j].firedAt
             /\ active' = active /\ history' = history]_vars

\* ---------------------------------------------------- condition properties
KnownFields ==
    {"drop_pct", "strength_score", "throughput", "uptime_pct",
     "latency_p95_ms", "latency_p99_ms", "state", "cert_days_left"}

\* C12: a rule whose condition names an unknown field, is not exactly three
\* whitespace-separated tokens, uses an unsupported operator or has an
\* unparseable right-hand side never fires, for any snapshot.
C12_BadConditionNeverFires ==
    (/\ condPc = "done"
     /\ \/ Len(Fields(condIn)) # 3
        \/ Fields(condIn)[1] \notin KnownFields
        \/ Fields(condIn)[2] \notin {">", ">=", "<", "<=", "=="}
        \/ (Fields(condIn)[1] # "state" /\ ~ParseFloat(Fields(condIn)[3]).ok))
    => ~condOut.fires

\* ------------------------------------------- store and receiver properties
\* C13: for every snapshot the receiver accepts it puts the snapshot into the
\* store and then calls the alert engine's Evaluate on it, exactly once: when
\* no handler is running, Evaluate has been called once per accepted snapshot.
C13_PutThenEvaluate ==
    (\A h \in Handlers : rcvPc[h] = "idle") => nEvals = nAccepted

\* C19: after any interleaving of concurrent Puts the entry of an id is the
\* snapshot of the Put that ran last, with updatedAt that Put's time; Get
\* returns it until the next Put or eviction; a Put of an id already present
\* does not increase Count.
C19_LastPutWins ==
    /\ [](\A id \in StoreIds :
             stData[id] = NoEntry \/ stData[id] = lastApplied[id])
    /\ [][\A h \in Handlers : (rcvPc[h] = "put" /\ rcvPc'[h] = "return") =>
            /\ stData'[rcvSnap[h].SourceId] =
                   [ver |-> rcvSnap[h].ver, updatedAt |-> stNow]
            /\ \A id \in StoreIds \ {rcvSnap[h].SourceId} :
                   stData'[id] = stData[id]
            /\ rcvSnap[h].SourceId \in Present(stData) =>
                   Cardinality(Present(stData')) = Cardinality(Present(stData))]_vars
    /\ [][(stObs = NoObs /\ stObs' # NoObs /\ stObs'.op = "get") =>
            IF stData[stObs'.id] # NoEntry
            THEN stObs'.ok /\ stObs'.e = lastApplied[stObs'.id]
            ELSE ~stObs'.ok]_vars

\* two handlers put the same id at once and the Put of the earlier call ran
\* last: the store holds the earlier call's snapshot
C19_Witness ==
    \E g, h \in Handlers : \E id \in StoreIds :
       /\ g # h
       /\ rcvPc[g] = "return" /\ rcvPc[h] = "return"
       /\ rcvSnap[g] = [SourceId |-> id, ver |-> 1]
       /\ rcvSnap[h] = [SourceId |-> id, ver |-> 2]
       /\ stData[id].ver = 1
       /\ Cardinality(Present(stData)) = 1

\* C24: a SendSnapshot request changes the store only if the interceptor let
\* it through and its source_id is not empty. In apikey mode with a non-empty
\* configured key a request with a missing or wrong key is answered
\* Unauthenticated before the receiver runs; a request with an empty
\* source_id is answered InvalidArgument; the store is unchanged in both
\* cases. With an empty configured key every request reaches the receiver.
C24_AuthBeforeStore ==
    /\ [][\A h \in Handlers : authReq'[h] # authReq[h] =>
            LET req == authReq'[h]
                keyed == authMode = "apikey" /\ authKey # ""
                badKey == \/ ~req.md.ok
                          \/ req.md.vals = <<>>
                          \/ req.md.vals[1] # authKey
            IN  /\ (keyed /\ badKey) =>
                      /\ rcvResp'[h] = "Unauthenticated"
                      /\ rcvPc'[h] = "idle" /\ rcvSnap' = rcvSnap
                      /\ stData' = stData
                /\ (~(keyed /\ badKey) /\ req.src = "") =>
                      /\ rcvResp'[h] = "InvalidArgument"
                      /\ rcvPc'[h] = "idle"
                      /\ stData' = stData
                /\ (authKey = "") => rcvResp'[h] # "Unauthenticated"
                /\ (~(keyed /\ badKey) /\ req.src # "") =>
                      /\ rcvPc'[h] = "put"
                      /\ rcvSnap'[h].SourceId = req.src]_vars
    /\ [][stData' # stData =>
            \E h \in Handlers :
               /\ rcvPc[h] = "put"
               /\ authReq[h].src # "" /\ authReq[h].src = rcvSnap[h].SourceId
               /\ (authMode = "apikey" /\ authKey # "") =>
                     authReq[h].md = [ok |-> TRUE, vals |-> <<authKey>>]]_vars

\* in apikey mode one request with a wrong key was answered Unauthenticated
\* and one with the right key and no source_id InvalidArgument; the store is
\* empty
C24_Witness ==
    /\ authMode = "apikey" /\ authKey = "k1"
    /\ \E g, h \in Handlers :
          /\ authReq[g].md.vals = <<"bad">> /\ authReq[g].src # ""
          /\ rcvResp[g] = "Unauthenticated"
          /\ authReq[h].md.vals = <<"k1">> /\ authReq[h].src = ""
          /\ rcvResp[h] = "InvalidArgument"
    /\ \A id \in StoreIds : stData[id] = NoEntry

\* C21: Evict(now) removes exactly the entries with now - updatedAt >= TTL,
\* leaves every other entry unchanged and returns the number it removed; an
\* entry is removed iff List at the same time would leave it out.
C21_EvictExactlyStale ==
    [][(stObs = NoObs /\ stObs' # NoObs /\ stObs'.op = "evict") =>
         /\ \A id \in StoreIds :
               stData'[id] = IF stData[id] # NoEntry
                                /\ stObs'.at - stData[id].updatedAt >= ttl
                             THEN NoEntry ELSE stData[id]
         /\ stObs'.n = Cardinality(Present(stData)) - Cardinality(Present(stData'))
         /\ \A id \in Present(stData) :
               (stData'[id] = NoEntry) <=>
                  ([id |-> id, e |-> stData[id]] \notin storeList(stData, stObs'.at))]_vars

\* Evict has just removed an entry exactly TTL old, kept a younger one and
\* returned 1
C21_Witness ==
    /\ stObs # NoObs
    /\ stObs.op = "evict"
    /\ stObs.n = 1
    /\ \E id \in StoreIds :
          /\ lastApplied[id] # NoEntry
          /\ stObs.at - lastApplied[id].updatedAt = ttl
          /\ stData[id] = NoEntry
    /\ \E id \in StoreIds : stData[id] # NoEntry

\* C20: List returns exactly the entries whose age (now - updatedAt) is below
\* the TTL, whether or not an eviction has run; Count and Get still see the
\* stale entries that have not been evicted.
C20_ListExcludesStale ==
    /\ [][(stObs = NoObs /\ stObs' # NoObs /\ stObs'.op = "list") =>
            stObs'.out = {[id |-> id, e |-> stData[id]] :
                             id \in {i \in Present(stData) :
                                        stNow - stData[i].updatedAt < ttl}}]_vars
    /\ [][(stObs = NoObs /\ stObs' # NoObs /\ stObs'.op = "count") =>
            stObs'.n = Cardinality({id \in StoreIds : stData[id] # NoEntry})]_vars
    /\ [][(stObs = NoObs /\ stObs' # NoObs /\ stObs'.op = "get") =>
            /\ stObs'.e = stData[stObs'.id]
            /\ stObs'.ok = (stData[stObs'.id] # NoEntry)]_vars

\* List has just left out an entry exactly TTL old that is still in the map
\* and returned a younger one
C20_Witness ==
    /\ stObs.op = "list"
    /\ stObs.at = stNow
    /\ \E id \in StoreIds :
          /\ stData[id] # NoEntry
          /\ stNow - stData[id].updatedAt = ttl
          /\ [id |-> id, e |-> stData[id]] \notin stObs.out
    /\ \E id \in StoreIds :
          /\ stData[id] # NoEntry
          /\ [id |-> id, e |-> stData[id]] \in stObs.out

\* ----------------------------------------------- compute engine properties
\* a Process call is made in this step, on a failed scrape
FailedStep == nProcess' # nProcess /\ cin'.res.Err # ""

\* a Process call is made in this step, on a successful scrape
OkStep == nProcess' # nProcess /\ cin'.res.Err = ""

StepSrc == cin'.res.SourceID

Baseline(st) == <<st.prev, st.prevTime, st.hasBaseline>>

\* received delta of the scrape of this step against counters prev, all signals
RecvDeltaAgainst(prev) ==
    SumSeq([i \in DOMAIN signalTypes |->
              IF cin'.res.Received[signalTypes[i]] >= prev.Received[signalTypes[i]]
              THEN cin'.res.Received[signalTypes[i]] - prev.Received[signalTypes[i]]
              ELSE 0])

DropDeltaOf(sig, prev) ==
    IF cin'.res.Dropped[sig] >= prev.Dropped[sig]
    THEN cin'.res.Dropped[sig] - prev.Dropped[sig]
    ELSE 0

\* C15: Process on a failed scrape returns state unknown with the error
\* message copied and leaves the source's baseline unchanged; only the outcome
\* window changes, and the next successful scrape computes deltas and elapsed
\* time against the last successful scrape.
C15_FailedScrapeKeepsBaseline ==
    /\ [][FailedStep =>
            /\ cout'.State = "unknown"
            /\ cout'.ErrorMessage = cin'.res.Err
            /\ Baseline(cstates'[StepSrc]) = Baseline(cstates[StepSrc])
            /\ cstates'[StepSrc].history = Append(cstates[StepSrc].history, FALSE)
            /\ \A src \in CompSources \ {StepSrc} : cstates'[src] = cstates[src]]_vars
    /\ [](\A src \in CompSources : clastOk[src].seen =>
            /\ cstates[src].prev = clastOk[src].res
            /\ cstates[src].prevTime = clastOk[src].now)
    /\ [][(OkStep /\ clastOk[StepSrc].seen /\ cin'.now > clastOk[StepSrc].now) =>
            RMul(cout'.ThroughputPM, R(cin'.now - clastOk[StepSrc].now, 2))
               = RInt(RecvDeltaAgainst(clastOk[StepSrc].res))]_vars

\* success, failure, success for one source: the third result has a rate,
\* taken over the time since the first scrape
C15_Witness ==
    \E src \in CompSources :
       /\ cstates[src].history = <<TRUE, FALSE, TRUE>>
       /\ cout.SourceID = src
       /\ cout.State # "unknown"
       /\ RLt(RInt(0), cout.ThroughputPM)
       /\ cout.ThroughputPM = RInt(5)

\* C16: hasBaseline is false as long as no successful scrape of the source has
\* been processed and true after one; the first successful scrape returns
\* state unknown and stores the baseline, whatever failures came before.
C16_BaselineIffSuccessSeen ==
    /\ [](\A src \in CompSources : cstates[src].hasBaseline = clastOk[src].seen)
    /\ [][(OkStep /\ ~clastOk[StepSrc].seen) =>
            /\ cout'.State = "unknown"
            /\ cstates'[StepSrc].prev = cin'.res
            /\ cstates'[StepSrc].prevTime = cin'.now
            /\ cstates'[StepSrc].hasBaseline]_vars

\* two failed scrapes, then the first successful one
C16_Witness ==
    \E src \in CompSources :
       /\ cstates[src].history = <<FALSE, FALSE, TRUE>>
       /\ cstates[src].hasBaseline
       /\ cstates[src].prev = cin.res
       /\ cout.SourceID = src
       /\ cout.State = "unknown"

C18_NoReceivedNoSignals ==
    [][(OkStep /\ cstates[StepSrc].hasBaseline
          /\ RecvDeltaAgainst(cstates[StepSrc].prev) = 0) =>
         /\ cout'.ThroughputPM = RInt(0)
         /\ cout'.Signals = <<>>]_vars

\* C18, amended: a steady-state input whose received delta is 0 for all
\* signals yields throughput_per_min 0, and its signals sequence holds exactly
\* the signals whose dropped delta is positive, so it is empty when the dropped
\* deltas are 0 as well.
C18_NoReceivedOnlyDroppedSignals ==
    [][(OkStep /\ cstates[StepSrc].hasBaseline
          /\ RecvDeltaAgainst(cstates[StepSrc].prev) = 0) =>
         /\ cout'.ThroughputPM = RInt(0)
         /\ {cout'.Signals[i].Type : i \in DOMAIN cout'.Signals}
               = {signalTypes[i] : i \in {j \in DOMAIN signalTypes :
                     DropDeltaOf(signalTypes[j], cstates[StepSrc].prev) > 0}}
         /\ Len(cout'.Signals)
               = Cardinality({j \in DOMAIN signalTypes :
                     DropDeltaOf(signalTypes[j], cstates[StepSrc].prev) > 0})
         /\ \A i \in DOMAIN cout'.Signals :
               cout'.Signals[i].ReceivedPM = RInt(0)]_vars

\* nothing more received but one more trace dropped since the baseline: no
\* throughput, and one signal entry, for traces
C18_Witness ==
    \E src \in CompSources :
       /\ cstates[src].history = <<TRUE, TRUE>>
       /\ cout.SourceID = src
       /\ cout.ThroughputPM = RInt(0)
       /\ Len(cout.Signals) = 1
       /\ cout.Signals[1].Type = "traces"
       /\ cout.Signals[1].ReceivedPM = RInt(0)

\* received delta of the scrape of this step for one signal
RecvDeltaOf(sig, prev) ==
    IF cin'.res.Received[sig] >= prev.Received[sig]
    THEN cin'.res.Received[sig] - prev.Received[sig]
    ELSE 0

\* the minutes the rates of this step are taken over
ElapsedOfStep ==
    IF cin'.now - cstates[StepSrc].prevTime <= 0
    THEN RInt(1)
    ELSE R(cin'.now - cstates[StepSrc].prevTime, 2)

\* C30: for every signal, the delta of a successful scrape against the last
\* successful one is cur - prev when cur >= prev and 0 when cur < prev, never
\* negative: every rate is that delta over the elapsed time; and when no
\* counter of the scrape is above its baseline, drop_pct is 0 and no signal
\* entry is emitted.
C30_CounterResetZeroDelta ==
    [][(OkStep /\ cstates[StepSrc].hasBaseline) =>
         LET prev == cstates[StepSrc].prev
         IN  /\ prev = clastOk[StepSrc].res
             /\ RMul(cout'.ThroughputPM, ElapsedOfStep) = RInt(RecvDeltaAgainst(prev))
             /\ ~RLt(cout'.ThroughputPM, RInt(0))
             /\ ~RLt(cout'.DropPct, RInt(0))
             /\ \A i \in DOMAIN cout'.Signals :
                   LET s == cout'.Signals[i]
                   IN  /\ RMul(s.ReceivedPM, ElapsedOfStep)
                             = RInt(RecvDeltaOf(s.Type, prev))
                       /\ RMul(s.DroppedPM, ElapsedOfStep)
                             = RInt(DropDeltaOf(s.Type, prev))
                       /\ ~RLt(s.ReceivedPM, RInt(0))
                       /\ ~RLt(s.DroppedPM, RInt(0))
                       /\ ~RLt(s.DropPct, RInt(0))
             /\ \A j \in DOMAIN signalTypes :
                   (RecvDeltaOf(signalTypes[j], prev) > 0
                      \/ DropDeltaOf(signalTypes[j], prev) > 0)
                   => \E i \in DOMAIN cout'.Signals :
                         cout'.Signals[i].Type = signalTypes[j]
             /\ (\A j \in DOMAIN signalTypes :
                    /\ cin'.res.Received[signalTypes[j]] <= prev.Received[signalTypes[j]]
                    /\ cin'.res.Dropped[signalTypes[j]] <= prev.Dropped[signalTypes[j]])
                 => /\ cout'.DropPct = RInt(0)
                    /\ cout'.ThroughputPM = RInt(0)
                    /\ cout'.Signals = <<>>]_vars

\* a scrape whose traces counters are both below the baseline (15 received and
\* 1 dropped, then 10 and 0): drop_pct 0, no throughput, no signal entry
C30_Witness ==
    \E src \in CompSources :
       /\ cout.SourceID = src
       /\ cin.res.Err = ""
       /\ cin.prev.SourceID = src
       /\ cin.prev.Received["traces"] = 15 /\ cin.res.Received["traces"] = 10
       /\ cin.prev.Dropped["traces"] = 1 /\ cin.res.Dropped["traces"] = 0
       /\ cout.State # "unknown"
       /\ cout.DropPct = RInt(0)
       /\ cout.ThroughputPM = RInt(0)
       /\ cout.Signals = <<>>

\* the outcomes of `hist` followed by `success`, cut to the newest 20
NewestOutcomes(hist, success) ==
    LET full == Append(hist, success)
    IN  IF Len(full) > 20 THEN SubSeq(full, Len(full) - 19, Len(full)) ELSE full

Successes(hist) == Cardinality({i \in DOMAIN hist : hist[i]})

\* C31: the outcome window of a source never holds more than 20 entries and
\* holds the most recent outcomes in arrival order, the outcome of the scrape
\* being processed included; the returned uptime_pct is successes / entries
\* x 100 of that window: 0 when all failed, 100 when all succeeded.
C31_RollingWindow ==
    /\ [](\A src \in CompSources : Len(cstates[src].history) <= 20)
    /\ [][nProcess' # nProcess =>
            LET w == cstates'[StepSrc].history
            IN  /\ w = NewestOutcomes(cstates[StepSrc].history, cin'.res.Err = "")
                /\ RMul(cout'.UptimePct, RInt(Len(w))) = RInt(100 * Successes(w))
                /\ Successes(w) = 0 => cout'.UptimePct = RInt(0)
                /\ Successes(w) = Len(w) => cout'.UptimePct = RInt(100)]_vars

\* a full window that began with a failure now begins with a success and ends
\* with the failure just processed: the oldest outcome was evicted
C31_Witness ==
    LET w == cstates["src-a"].history
    IN  /\ Len(w) = 20
        /\ w[1] /\ ~w[2] /\ ~w[20]
        /\ cin.res.SourceID = "src-a" /\ cin.res.Err # ""
        /\ cout.SourceID = "src-a"
        /\ cout.UptimePct = RInt(50)

\* the deliveries started for a key, as indexes into dispatched
KeyDispatches(key) ==
    {i \in DOMAIN dispatched :
        dispatched[i].rule = key[1] /\ dispatched[i].source = key[2]}

\* every resolved delivery of a key is of the alert of the latest firing
\* delivery before it, and no other resolved delivery lies between the two
ResolvesFollowFires ==
    \A key \in Keys : \A j \in KeyDispatches(key) :
       dispatched[j].state = "resolved" =>
          \E i \in KeyDispatches(key) :
             /\ i < j
             /\ dispatched[i].state = "firing"
             /\ dispatched[i].id = dispatched[j].id
             /\ \A k \in KeyDispatches(key) : ~(i < k /\ k < j)

\* C35, as claimed: for one key, fire and resolved transitions alternate:
\* while an alert is active for the key no further fire is dispatched for it,
\* even after the cooldown has expired, so every alert delivered as firing is
\* still active or has been archived and delivered as resolved with the same
\* id.
C35_FireResolveAlternate ==
    /\ [][\A e \in Evaluators :
            (RuleStep(e) /\ active[StepKey(e)] # NoAlert /\ StepFires(e))
               => UNCHANGED <<active, lastFire, history, dispatched>>]_vars
    /\ [](\A key \in Keys : \A i \in KeyDispatches(key) :
            dispatched[i].state = "firing" =>
               \/ active[key] # NoAlert /\ active[key].id = dispatched[i].id
               \/ \E j \in KeyDispatches(key) :
                     /\ j > i
                     /\ dispatched[j].state = "resolved"
                     /\ dispatched[j].id = dispatched[i].id)
    /\ []ResolvesFollowFires

\* C35, amended: while an alert is active for the key no further fire is
\* dispatched for it until the cooldown has expired; then a snapshot whose
\* condition still holds fires again, and the new alert replaces the active
\* one, which is not archived and not delivered as resolved. When the
\* condition turns false the alert that is active then, the latest one
\* delivered as firing, is archived and delivered as resolved with its id.
C35_RefireAfterCooldown ==
    /\ [][\A e \in Evaluators :
            (RuleStep(e) /\ active[StepKey(e)] # NoAlert /\ StepFires(e)) =>
               IF enow[e] - lastFire[StepKey(e)] > claimCooldown(Rules[eidx[e]])
               THEN /\ active'[StepKey(e)].state = "firing"
                    /\ active'[StepKey(e)].firedAt = enow[e]
                    /\ active'[StepKey(e)].id # active[StepKey(e)].id
                    /\ dispatched' = Append(dispatched, active'[StepKey(e)])
                    /\ history' = history
               ELSE UNCHANGED <<active, lastFire, history, dispatched>>]_vars
    /\ [][\A e \in Evaluators :
            (RuleStep(e) /\ active[StepKey(e)] # NoAlert /\ ~StepFires(e)) =>
               /\ active'[StepKey(e)] = NoAlert
               /\ Len(history') > 0
               /\ history'[Len(history')].id = active[StepKey(e)].id
               /\ history'[Len(history')].state = "resolved"
               /\ dispatched' = Append(dispatched, history'[Len(history')])]_vars
    /\ [](\A key \in Keys : \A i \in KeyDispatches(key) :
            (dispatched[i].state = "firing"
               /\ \A k \in KeyDispatches(key) : k <= i) =>
               active[key] # NoAlert /\ active[key].id = dispatched[i].id)
    /\ []ResolvesFollowFires

\* high_drop fired, fired again for the same source after the cooldown while
\* the first alert was active, and then resolved: the resolved delivery is of
\* the second alert, the first was never resolved
C35_Witness ==
    \E src \in Sources :
       LET key == <<"high_drop", src>>
       IN  \E i, j, k \in KeyDispatches(key) :
              /\ i < j /\ j < k
              /\ dispatched[i].state = "firing"
              /\ dispatched[j].state = "firing"
              /\ dispatched[j].id # dispatched[i].id
              /\ \A m \in KeyDispatches(key) : m = i \/ m = j \/ m = k
              /\ dispatched[k].state = "resolved"
              /\ dispatched[k].id = dispatched[j].id
              /\ active[key] = NoAlert

\* C36: for one key, the POSTs reach a target in the order of the transitions
\* that caused them: the POST for a fire is issued before the POST for the
\* resolve of the same alert, and the fire payload says state firing even when
\* the alert is resolved before the POST is made.
C36_PostsInTransitionOrder ==
    /\ [](\A a, b \in DOMAIN posted :
            (/\ dispatched[posted[a]].rule = dispatched[posted[b]].rule
             /\ dispatched[posted[a]].source = dispatched[posted[b]].source
             /\ posted[a] < posted[b]) => a < b)
    /\ [](\A a, b \in DOMAIN posted :
            (/\ dispatched[posted[a]].state = "firing"
             /\ dispatched[posted[b]].state = "resolved"
             /\ dispatched[posted[a]].id = dispatched[posted[b]].id) => a < b)
    /\ [][\A i \in DOMAIN dispatched : dispatched'[i] = dispatched[i]]_vars

\* snapshot id is waiting in the buffer or being sent
Pending(id) == id = inflight \/ \E k \in DOMAIN buf : buf[k] = id

WasDelivered(id) == \E k \in DOMAIN delivered : delivered[k] = id

\* C37: once the server is reachable for good and accepts every snapshot,
\* nothing more is enqueued and ctx is not cancelled, the shipper eventually
\* sends every snapshot that is in the buffer and the buffer becomes empty;
\* a snapshot that was delivered is never put back into the buffer.
C37_HealedDrains ==
    /\ [](\A id \in 1..MaxShip : WasDelivered(id) => ~Pending(id))
    /\ [][\A id \in 1..MaxShip :
            (healed /\ Pending(id) /\ ~Pending(id)') => WasDelivered(id)']_vars
    /\ \A id \in 1..MaxShip : (healed /\ Pending(id)) ~> WasDelivered(id)
    /\ healed ~> [](buf = <<>> /\ inflight = None
                       /\ \A id \in healBuf : WasDelivered(id))

\* the server recovered while two snapshots were waiting or being sent; both
\* have been delivered and the buffer is empty
C37_Witness ==
    /\ healed
    /\ buf = <<>> /\ inflight = None
    /\ Cardinality(healBuf) >= 2
    /\ \A id \in healBuf : WasDelivered(id)
    /\ lastRes.res = "OK"
    /\ rpc = "drain"

\* C38: a successful scrape processed after a baseline exists never returns
\* state unknown: recovery_rate is 100 - drop_pct, so the all-zero case of the
\* score calculator cannot occur, and an interval with no traffic (every
\* delta 0) is reported with drop_pct 0, recovery_rate 100 and a state
\* derived from the score.
C38_SteadyNeverUnknown ==
    [][(OkStep /\ cstates[StepSrc].hasBaseline) =>
         /\ cout'.State # "unknown"
         /\ RAdd(cout'.RecoveryRate, cout'.DropPct) = RInt(100)
         /\ ~(cout'.DropPct = RInt(0) /\ cout'.RecoveryRate = RInt(0)
                /\ cout'.UptimePct = RInt(0))
         /\ cout'.State = (IF RLe(RInt(85), cout'.StrengthScore) THEN "healthy"
                           ELSE IF RLe(RInt(60), cout'.StrengthScore) THEN "degraded"
                           ELSE "critical")
         /\ (\A j \in DOMAIN signalTypes :
                /\ RecvDeltaOf(signalTypes[j], cstates[StepSrc].prev) = 0
                /\ DropDeltaOf(signalTypes[j], cstates[StepSrc].prev) = 0)
            => /\ cout'.DropPct = RInt(0)
               /\ cout'.RecoveryRate = RInt(100)]_vars

\* a scrape after a counter reset, following one failed and one successful
\* scrape: no traffic, drop_pct 0, recovery_rate 100, and a state from the
\* score, which the two successes out of three leave below 100
C38_Witness ==
    \E src \in CompSources :
       /\ cstates[src].history = <<FALSE, TRUE, TRUE>>
       /\ cout.SourceID = src
       /\ cin.prev.Received["traces"] = 15 /\ cin.res.Received["traces"] = 10
       /\ cin.prev.Dropped["traces"] = 0 /\ cin.res.Dropped["traces"] = 0
       /\ cout.DropPct = RInt(0)
       /\ cout.RecoveryRate = RInt(100)
       /\ cout.State = "healthy"
       /\ RLt(cout.StrengthScore, RInt(100))

\* the entry of id has reached its TTL
Expired(id) == stData[id] # NoEntry /\ stNow - stData[id].updatedAt >= ttl

\* C39, first part: while the evictor runs and ctx is not cancelled, an entry
\* that is not put again is eventually removed once its age has reached TTL.
EvictorRemovesExpired ==
    \A id \in StoreIds :
       (Expired(id) /\ ~stCtxDone) ~> (~Expired(id) \/ stCtxDone)

\* C39: while the background evictor runs and ctx is not cancelled, an entry
\* that is not put again is eventually removed from the store once its age
\* has reached TTL; after ctx is cancelled the evictor returns and removes
\* nothing more.
C39_EvictorRunsUntilCancelled ==
    /\ [][stCtxDone => \A id \in StoreIds :
            stData[id] # NoEntry => stData'[id] # NoEntry]_vars
    /\ [][stStopped => stStopped']_vars
    /\ stCtxDone ~> stStopped
    /\ EvictorRemovesExpired

\* C34: no message is ever sent to a client's outbox after the outbox has been
\* closed: neither the broadcast loop, sending to the client set it copied,
\* nor the initial send at connect runs against an outbox that an unregister,
\* a slow-consumer eviction or the shutdown has already closed.
C34_NoSendOnClosed ==
    /\ [](hpc # "panic")
    /\ [][\A c \in Clients :
            (hs[c] = "registered" /\ hs'[c] # "registered") => chst[c] = "open"]_vars
    /\ [][\A c \in Clients :
            (Len(outbox'[c]) > Len(outbox[c])) => chst[c] = "open"]_vars

\* a Compute call has been made
ScoreCalled == scoreIn # NoInput

AllZeroInput ==
    scoreIn.UptimePct = RInt(0) /\ scoreIn.DropPct = RInt(0)
       /\ scoreIn.RecoveryRate = RInt(0)

\* C32: Compute returns healthy iff score >= 85, degraded iff 60 <= score < 85
\* and critical iff score < 60, so exactly 85 is healthy and exactly 60 is
\* degraded, except that it returns unknown when drop_pct, recovery_rate and
\* uptime_pct are all zero; a perfect input (drop 0, recovery 100, uptime 100,
\* no latency baseline) scores 100.
C32_StateFromScore ==
    ScoreCalled =>
       /\ AllZeroInput <=> scoreRes.State = "unknown"
       /\ ~AllZeroInput =>
             /\ scoreRes.State = "healthy" <=> RLe(RInt(85), scoreRes.Score)
             /\ scoreRes.State = "degraded" <=>
                   (RLe(RInt(60), scoreRes.Score) /\ RLt(scoreRes.Score, RInt(85)))
             /\ scoreRes.State = "critical" <=> RLt(scoreRes.Score, RInt(60))
       /\ (/\ scoreIn.DropPct = RInt(0) /\ scoreIn.RecoveryRate = RInt(100)
           /\ scoreIn.UptimePct = RInt(100) /\ scoreIn.BaselineLatencyMs = RInt(0))
          => scoreRes.Score = RInt(100) /\ scoreRes.State = "healthy"

\* no drops, a quarter recovered, always up, no latency baseline: the score is
\* exactly 85 and the state healthy
C32_Witness ==
    /\ ScoreCalled
    /\ scoreIn.RecoveryRate = RInt(25)
    /\ scoreRes.Score = RInt(85)
    /\ scoreRes.State = "healthy"

\* v is a number between lo and hi
InRange(v, lo, hi) == RLe(RInt(lo), v) /\ RLe(v, RInt(hi))

\* C33: for every input to Compute, percentages outside [0, 100] and any
\* latency / baseline pair included, each of the four factors is in [0, 1] and
\* the score is in [0, 100]; the drop_pct, recovery_rate and uptime_pct that
\* Process returns are in [0, 100].
C33_OutputsInRange ==
    /\ [](ScoreCalled =>
            /\ InRange(scoreRes.DropFactor, 0, 1)
            /\ InRange(scoreRes.LatencyFactor, 0, 1)
            /\ InRange(scoreRes.RecoveryFactor, 0, 1)
            /\ InRange(scoreRes.UptimeFactor, 0, 1)
            /\ InRange(scoreRes.Score, 0, 100))
    /\ [][nProcess' # nProcess =>
            /\ InRange(cout'.DropPct, 0, 100)
            /\ InRange(cout'.RecoveryRate, 0, 100)
            /\ InRange(cout'.UptimePct, 0, 100)
            /\ InRange(cout'.StrengthScore, 0, 100)]_vars

Init == ShipInit /\ HubInit /\ AlertInit /\ ExtInit

Next ==
    ShipNext \/ BoNextStep \/ HubNext \/ HubDataNext \/ AlertNext \/ DeliverNext \/ ActiveNext \/ AlertLongNext
    \/ CondNext \/ StoreNext \/ AuthNext \/ CompNext \/ ScoreNext \/ ScoreAnyNext \/ PostNext \/ ShipHealNext \/ StoreRunNext

SpecShipper == Init /\ [][ShipNext]_vars

\* the server side alone: the shipper stays as constructed, with a buffer of one
InitCap1 == Init /\ cap = 1

SpecHub == InitCap1 /\ [][HubNext]_vars

\* a backoff on its own: any sequence of next and reset calls
SpecBackoff == InitCap1 /\ [][BoNextStep]_vars

\* the hub with its clients connected, before any shutdown, over a store
\* whose content changes
InitHubServing == ShipInit /\ cap = 1 /\ HubInitServing /\ AlertInit /\ ExtInit

SpecHubData == InitHubServing /\ [][HubDataNext]_vars

\* the hub with every goroutine scheduled: Run's select takes the cancelled
\* context sooner or later, a started broadcast goes on, handlers and writers
\* get to run
HubFairness ==
    /\ SF_vars(Shutdown)
    /\ WF_vars(BroadcastSend)
    /\ \A c \in Clients : WF_vars(InitialSend(c)) /\ WF_vars(WriterRecv(c))

SpecHubFair == InitCap1 /\ [][HubNext]_vars /\ HubFairness

\* the alert engine alone
SpecAlerts == InitCap1 /\ [][AlertNext]_vars

\* the gRPC server under any configuration of the auth interceptor
InitAuth ==
    ShipInit /\ cap = 1 /\ HubInit /\ AlertInit /\ CondInit /\ StoreInit /\ CompInit
    /\ AuthInitAny /\ BoInit /\ ScoreInit /\ PostInit /\ EnvInit /\ RunInit

SpecAuth == InitAuth /\ [][AuthNext]_vars

\* the alert engine, one handler, with readers of Active
SpecActive == InitCap1 /\ [][ActiveNext]_vars

\* the alert engine after a long run
InitAlertsLong == ShipInit /\ cap = 1 /\ HubInit /\ AlertInitLong /\ ExtInit

SpecAlertsLong == InitAlertsLong /\ [][AlertLongNext]_vars

\* one evalCondition call on any condition string and snapshot
InitCond ==
    ShipInit /\ cap = 1 /\ HubInit /\ AlertInit /\ CondInitAny /\ StoreInit /\ CompInit
    /\ AuthInit /\ BoInit /\ ScoreInit /\ PostInit /\ EnvInit /\ RunInit

SpecCond == InitCond /\ [][CondNext]_vars

\* the receiver's handlers, the store and its eviction loop
SpecStore == InitCap1 /\ [][StoreNext]_vars

\* C40: a Process call for one source id leaves the baseline and the outcome
\* window of every other source id as they were, and in every interleaving
\* of calls a source's baseline is the last successful scrape of that source
\* itself.
C40_SourcesIndependent ==
    /\ [][nProcess' # nProcess =>
            \A src \in CompSources \ {StepSrc} :
                /\ Baseline(cstates'[src]) = Baseline(cstates[src])
                /\ cstates'[src].history = cstates[src].history]_vars
    /\ [](\A src \in CompSources :
            /\ cstates[src].hasBaseline = clastOk[src].seen
            /\ clastOk[src].seen =>
                   /\ cstates[src].prev = clastOk[src].res
                   /\ cstates[src].prevTime = clastOk[src].now)

\* both sources are baselined by interleaved calls and their windows differ
C40_Witness ==
    /\ nProcess = MaxProcess
    /\ cin.res.SourceID = "src-b"
    /\ cstates["src-a"].hasBaseline /\ cstates["src-b"].hasBaseline
    /\ cstates["src-a"].history = <<TRUE>>
    /\ cstates["src-b"].history = <<FALSE, TRUE>>
    /\ cstates["src-a"].prevTime # cstates["src-b"].prevTime

SpecDeliver == InitCap1 /\ [][DeliverNext]_vars

\* the agent's compute engine
SpecCompute == InitCap1 /\ [][CompNext]_vars

\* the score calculator on its own, on numbers
SpecScore == InitCap1 /\ [][ScoreNext]_vars

\* the score calculator on any float64
SpecScoreAny == InitCap1 /\ [][ScoreAnyNext]_vars

\* the shipper and a server that recovers for good
SpecShipHeal == Init /\ [][ShipHealNext]_vars /\ ShipHealFairness

\* the store with its background evictor
SpecStoreRun == InitCap1 /\ [][StoreRunNext]_vars /\ StoreRunFairness

\* the alert engine and the webhook target
SpecPost == InitCap1 /\ [][PostNext]_vars

InitWindow ==
    ShipInit /\ cap = 1 /\ HubInit /\ AlertInit /\ CondInit /\ StoreInit
    /\ CompInitWindow /\ AuthInit /\ BoInit /\ ScoreInit /\ PostInit /\ EnvInit /\ RunInit

\* the compute engine with a source whose outcome window is nearly full or full
SpecWindow == InitWindow /\ [][CompNext]_vars

Spec == Init /\ [][Next]_vars

====
